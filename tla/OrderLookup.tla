----------------------------- MODULE OrderLookup -----------------------------
(***************************************************************************)
(* RazorpayTestModeProvider.orders_for_receipt (provider.py): the account's *)
(* orders are paged through, newest first, while other purchases go on     *)
(* making orders, and matched against the receipt here.  What comes back   *)
(* decides, in the gateway and in the reconciler, whether the receipt was  *)
(* charged.                                                                *)
(*                                                                         *)
(* list is what the provider would list in one piece.  An order never      *)
(* leaves it, but may be listed late: then it goes in behind the orders    *)
(* made after it, not at the head.                                         *)
(*                                                                         *)
(* Init, Next and Spec carry the prefix Lookup: SweepsProofs extends this  *)
(* module and Sweeps.                                                      *)
(*                                                                         *)
(* A definition placed just before another one with the same parameters    *)
(* and named by no action is a plausible slip of it, for the mutants.      *)
(***************************************************************************)
EXTENDS Naturals, Sequences, SequencesExt

CONSTANTS Orders,      \* ids of orders
          Receipts,    \* receipts the orders carry
          Lookups,     \* threads looking a receipt up
          PageSize,    \* lookup_page_size
          MaxPages     \* max_lookup_pages

ASSUME OrderLookupAssumption == PageSize \in Nat \ {0} /\ MaxPages \in Nat

VARIABLES list,      \* the listed orders, newest first
          receiptOf, \* the receipt each order carries
          lookup     \* lookup[l]: where orders_for_receipt is in thread l

lookupVars == <<list, receiptOf, lookup>>

(* matches counts how often each order came up on a page.  The last two    *)
(* are history: the receipt's orders listed when the lookup began, and     *)
(* whether any order was listed since.                                     *)
LookupState ==
  [pc : {"paging", "answered", "raised"}, receipt : Receipts,
   skip : Nat, pages : Nat, matches : [Orders -> Nat],
   known : SUBSET Orders, arrivals : BOOLEAN]

Listed == Range(list)
Carrying(r) == {o \in Listed : receiptOf[o] = r}

Started(r) ==
  [pc |-> "paging", receipt |-> r, skip |-> 0, pages |-> 0,
   matches |-> [o \in Orders |-> 0], known |-> Carrying(r), arrivals |-> FALSE]

LookupTypeOK ==
  /\ list \in Seq(Orders)
  /\ receiptOf \in [Orders -> Receipts]
  /\ lookup \in [Lookups -> LookupState]

LookupInit ==
  /\ list = <<>>
  /\ receiptOf \in [Orders -> Receipts]
  /\ \E r \in Receipts : lookup = [l \in Lookups |-> Started(r)]

-----------------------------------------------------------------------------
(* The provider lists one order more, at its place i.                      *)

NoticeArrival(state) == [state EXCEPT !.arrivals = TRUE]

ListOrder(o, i) ==
  /\ o \notin Listed
  /\ list' = InsertAt(list, i, o)
  /\ lookup' = [l \in Lookups |-> NoticeArrival(lookup[l])]
  /\ UNCHANGED receiptOf

-----------------------------------------------------------------------------
(* The lookup.                                                             *)

(* GET /v1/orders with count and skip.                                     *)
Page(skip) ==
  SubSeq(list, skip + 1, IF skip + PageSize < Len(list) THEN skip + PageSize
                                                        ELSE Len(list))

Matches(s, page) ==
  [o \in Orders |-> IF o \in Range(page) /\ receiptOf[o] = s.receipt
                    THEN s.matches[o] + 1 ELSE s.matches[o]]

ExhaustedAtFull(page) == Len(page) <= PageSize
Exhausted(page) == Len(page) < PageSize

NextSkipShort(skip) == skip + PageSize - 1
NextSkip(skip) == skip + PageSize

TurnPage(s) == [s EXCEPT !.pages = s.pages + 1,
                         !.matches = Matches(s, Page(s.skip)),
                         !.skip = NextSkip(s.skip)]
LastPage(s) == [s EXCEPT !.pages = s.pages + 1,
                         !.matches = Matches(s, Page(s.skip)),
                         !.pc = "answered"]

PagesLeft(s) == s.pages < MaxPages

(* A page that is not full ends the list; what was matched is the answer.  *)
ReadPage(l) ==
  LET s == lookup[l]
  IN /\ s.pc = "paging" /\ PagesLeft(s)
     /\ lookup' = [lookup EXCEPT ![l] = IF Exhausted(Page(s.skip))
                                        THEN LastPage(s) ELSE TurnPage(s)]
     /\ UNCHANGED <<list, receiptOf>>

Ended(s, pc) == [s EXCEPT !.pc = pc]

(* max_lookup_pages read and the list goes on: "could not search far       *)
(* enough back" is raised, never an answer.                                *)
GiveUp(l) ==
  /\ lookup[l].pc = "paging" /\ ~PagesLeft(lookup[l])
  /\ lookup' = [lookup EXCEPT ![l] = Ended(lookup[l], "raised")]
  /\ UNCHANGED <<list, receiptOf>>

(* The page does not arrive, or is an error: ProviderTimeout, ProviderError.*)
PageFails(l) ==
  /\ lookup[l].pc = "paging" /\ PagesLeft(lookup[l])
  /\ lookup' = [lookup EXCEPT ![l] = Ended(lookup[l], "raised")]
  /\ UNCHANGED <<list, receiptOf>>

(* The thread goes on to its next receipt.                                 *)
AskAgain(l, r) ==
  /\ lookup[l].pc # "paging"
  /\ lookup' = [lookup EXCEPT ![l] = Started(r)]
  /\ UNCHANGED <<list, receiptOf>>

LookupNext ==
  \/ \E o \in Orders, i \in 1 .. Len(list) + 1 : ListOrder(o, i)
  \/ \E l \in Lookups :
       \/ ReadPage(l) \/ GiveUp(l) \/ PageFails(l)
       \/ \E r \in Receipts : AskAgain(l, r)

LookupSpec == LookupInit /\ [][LookupNext]_lookupVars

-----------------------------------------------------------------------------
(* Properties.                                                             *)

(* Every order of the receipt that was listed when orders_for_receipt was  *)
(* called is in its answer, whatever was listed while it paged; so an      *)
(* empty answer means there was none ("[] is trustworthy").                *)
AnswerIsComplete ==
  \A l \in Lookups :
    lookup[l].pc = "answered" => \A o \in lookup[l].known : lookup[l].matches[o] > 0

(* An order comes up twice in an answer, and makes "N provider orders      *)
(* share receipt" of one, only when the list grew while it was paged.      *)
RepeatsNeedAnArrival ==
  \A l \in Lookups, o \in Orders :
    lookup[l].matches[o] > 1 => lookup[l].arrivals

(* A lookup that no page failed for gives up only on a list at least as    *)
(* long as all its pages: an account that leaves room on the last of them  *)
(* is always answered for.  One that fills it exactly is not, for a full   *)
(* page does not end the walk.                                             *)
GivesUpBeyondReach ==
  \A l \in Lookups :
    lookup[l].pc = "raised" /\ lookup[l].pages = MaxPages
      => Len(list) >= MaxPages * PageSize

(* "N provider orders share receipt", says the reconciler of an answer     *)
(* longer than one.  Not so: it may hold one order twice.                  *)
ManyMeansMany ==
  \A l \in Lookups, o \in Orders :
    lookup[l].pc = "answered" /\ lookup[l].matches[o] > 1
      => \E p \in Orders \ {o} : lookup[l].matches[p] > 0
=============================================================================
