-------------------------- MODULE MCIndiaPaperBook --------------------------
(***************************************************************************)
(* A day of the auto trader and a day of the scalper, each with a resolver *)
(* that closes positions under it.  subject says which of the two a        *)
(* behaviour is about; the theorems hold with both at once and with the    *)
(* square-off and the requests beside them.                                *)
(***************************************************************************)
EXTENDS IndiaPaperBook, TLC

CONSTANTS
  ScalpRows,   \* bound on the rows of a scalper's day
  ScalpSymbols \* bound on the symbols it has to do with at a time

VARIABLE subject

MCInit == Init /\ subject \in {"auto", "scalper"}

SymbolsInPlay ==
  {k[1] : k \in claims}
    \cup {row[t].sym : t \in Trades \ Fresh}
    \cup ({scalp.sig.sym} \ {None})

\* No signal is scanned, for an attempt would claim it; the scalper's job only
\* resolves.
AutoDay ==
  /\ subject = "auto"
  /\ Next
  /\ UNCHANGED <<claims, crashes>>

\* The market stays open: nothing the scalper does depends on which of the open
\* phases it is, and nothing is opened in the others.
ScalpDay ==
  /\ subject = "scalper"
  /\ Next
  /\ UNCHANGED <<auto, phase>>
  /\ Cardinality(Trades \ Fresh') <= ScalpRows
  /\ Cardinality(SymbolsInPlay') <= ScalpSymbols

MCNext == (AutoDay \/ ScalpDay) /\ UNCHANGED subject

MCSpec == MCInit /\ [][MCNext]_<<vars, subject>>

Symmetry == Permutations(Trades) \cup Permutations(Symbols)

=============================================================================
