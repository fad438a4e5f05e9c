\* One intent is shown and answered by two threads: while the merchant changes
\* the price and the stock of its item, writes fail, answers get lost, the
\* service restarts and the offer expires; or while attempts time out.
SPECIFICATION Spec
CONSTANTS
  Threads = {t1, t2}
  Requests = {r1}
  NoRequest = NoRequest
  Keys = {k1, k2}
  NoKey = NoKey
  Prices = {1, 2}
  Quantities = {2}
  FirstPrice = 1
  TTL = 0
  MaxTimeouts = 2
  MaxNow = 1
SYMMETRY Symmetric
CONSTRAINTS OneTrouble NothingUnread
INVARIANT ChargedAsShown
 
INVARIANT ChargeIsEvidenced
INVARIANT RefusedStaysRefused
INVARIANT MoneyMovedIsTrue
 
CHECK_DEADLOCK FALSE
