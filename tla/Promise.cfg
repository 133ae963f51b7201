SPECIFICATION FairPromiseSpec
CONSTANTS
    w1 = w1  w2 = w2  r1 = r1  r2 = r2  a = a  b = b
    Writers = {w1, w2}
    Readers = {r1, r2}
    Offers = {a, b}
    Kinds = {"promise", "promise-chan"}
    MaxCalls = 2
    Unset = Unset  GaveUp = GaveUp  Nil = Nil
PROPERTIES IsWriteOnce DeliveryWakesAll
CHECK_DEADLOCK FALSE
