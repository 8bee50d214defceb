SPECIFICATION LiveSpec
CONSTANTS
    Session = {s1}
    Account = {me}
    Me = me
    AccountOf <- MCAccountOf
    Source = {home, dm}
    Home = home
    Batch = 2
    Capacity = 1
    MaxEvents = 2
    None = None
PROPERTY ChangesReachTheScreen
