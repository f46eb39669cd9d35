----------------------------- MODULE AtomicBook -----------------------------
(***************************************************************************)
(* What a scalper promises of the trades it opens, in either market: as if *)
(* looking for a trade that stands in the way and creating the new one     *)
(* were a single step, and as if nothing ever failed between the two.  A   *)
(* trade is opened once under its identifier, is not changed afterwards    *)
(* but for being closed, and stays closed.                                 *)
(***************************************************************************)
EXTENDS Integers

CONSTANTS
  Ids,   \* identifiers a trade can get
  Slots, \* what may hold one open trade at a time
  Lanes, \* what a trigger is a trigger of
  Times  \* minutes of the triggers

VARIABLE book \* the trade of each identifier

NoTrade == [st |-> "none"]

OpenTrade == [st : {"open"}, slot : Slots, lane : Lanes, at : Times]

\* The slot is free, and no trade of the lane, open or closed, comes from a
\* trigger within a minute.
Fits(new) ==
  \A t \in Ids :
    book[t].st # "none" =>
      /\ book[t].st = "open" => book[t].slot # new.slot
      /\ book[t].lane = new.lane => book[t].at - new.at \notin {-1, 0, 1}

BookOpens(t) ==
  /\ book[t].st = "none"
  /\ \E new \in OpenTrade : Fits(new) /\ book' = [book EXCEPT ![t] = new]

BookCloses(t) ==
  /\ book[t].st = "open"
  /\ book' = [book EXCEPT ![t].st = "closed"]

BookInit == book = [t \in Ids |-> NoTrade]

BookNext == \E t \in Ids : BookOpens(t) \/ BookCloses(t)

BookSpec == BookInit /\ [][BookNext]_book

=============================================================================
