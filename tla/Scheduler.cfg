SPECIFICATION Spec
CONSTANTS
  Session = {a, b}
  Hour = 2
INVARIANTS TypeOK NewLoginDue
PROPERTIES RetriesHourly LoginServed DeliveryRepaired
