------------------------------- MODULE PbuTable -------------------------------
(***************************************************************************)
(* What the members (PBUs) have ordered of one stock, and their ranking    *)
(* (stock_pbu.c, compiled under USE_PBU).  The table is a value: every     *)
(* function returns the table as the C function leaves it.                 *)
(*                                                                         *)
(* The firms are loaded before the first order, so a firm is its place in  *)
(* the sorted firm list, and data records do not run out.                  *)
(***************************************************************************)
EXTENDS Integers, Sequences, FiniteSets, SequencesExt

CONSTANT Firms   \* the places of the firm list: what GetPBUNoByFirm returns

ASSUME FirmAssumption == Firms \subseteq Nat /\ IsFiniteSet(Firms)

NoPlace == -1
Sides == {"bid", "offer"}

\* The restrictions that tie an order to phases; any other order counts in every phase.
Types == {"OA", "AU", "SU", "FP"}

BalancePhases == {"IOBB", "IPOBB", "OOBB", "OPOBB"}

\* The restrictions that count in a phase.
TypesOf(phase) ==
  CASE phase = "OCALL" -> {"OA", "AU"}
    [] phase = "ICALL" -> {"AU"}
    [] phase \in BalancePhases -> {"SU"}
    [] phase = "FCALL" -> {"FP"}
    [] OTHER -> {}

IsTradingPhase(o, phase) == o.type \in Types => o.type \in TypesOf(phase)

\* An iceberg order shows and counts its remPeakQty.
Shown(o) == IF o.ice THEN o.remPeakQty ELSE o.balance
-----------------------------------------------------------------------------
InitPBU ==
  [data |-> [f \in Firms |-> [pbuDataAdr |-> FALSE,
             current |-> [side \in Sides |-> 0],
             of |-> [side \in Sides |-> [t \in Types |-> 0]]]],
   ranked |-> [side \in Sides |-> <<>>],
   sortNo |-> [side \in Sides |-> [f \in Firms |-> NoPlace]],
   last |-> [side \in Sides |-> NoPlace]]

\* The caller adds the data of a firm with its first order (AddNewPBUData).
PBUOrderStatAdd(pbu, o, phase) ==
  [pbu EXCEPT
    !.data[o.firm].pbuDataAdr = TRUE,
    !.data[o.firm].of[o.side] = [t \in Types |-> IF t = o.type THEN @[t] + o.balance ELSE @[t]],
    !.data[o.firm].current[o.side] = IF IsTradingPhase(o, phase) THEN @ + Shown(o) ELSE @]

\* An iceberg order is taken out of the current sum with all of its balance.
PBUOrderStatDel(pbu, o, phase) ==
  [pbu EXCEPT
    !.data[o.firm].of[o.side] = [t \in Types |-> IF t = o.type THEN @[t] - o.balance ELSE @[t]],
    !.data[o.firm].current[o.side] = IF IsTradingPhase(o, phase) THEN @ - o.balance ELSE @]

\* It looks where a firm belongs now and does not move it; a firm that is not ranked yet
\* makes the list longer without being written to it.
UpdatePBUOrderSortList(pbu, o) ==
  [pbu EXCEPT !.last[o.side] = IF pbu.sortNo[o.side][o.firm] = NoPlace THEN @ + 1 ELSE @]

\* The balance phases PBUStatusChange looks for in the new phase instead of the old.
Mistaken == BalancePhases \ {"IOBB"}

\* What the old phase counted is taken out and what the new one counts is put in.
PBUStatusChange(pbu, pre, phase) ==
  LET out == IF pre \notin {"OCALL", "ICALL"} /\ (pre = "IOBB" \/ phase \in Mistaken) THEN {"SU"}
             ELSE IF pre \in BalancePhases THEN {} ELSE TypesOf(pre)
      sum(of, types) == SumFunctionOnSet(of, types)
  IN  [pbu EXCEPT !.data = [f \in Firms |-> [pbu.data[f] EXCEPT !.current = [side \in Sides |->
         @[side] - sum(pbu.data[f].of[side], out) + sum(pbu.data[f].of[side], TypesOf(phase))]]]]

\* Mutant: a firm with the amount of the last one is put behind the search's begin.
InsertFirmLow(pbu, side, ranked, f) ==
  LET amount(g) == pbu.data[g].current[side]
      place[i \in (0..Len(ranked)) \X (0..Len(ranked))] ==
        LET b == i[1]
            e == i[2]
            c == (b + e) \div 2
        IN  IF e - b <= 1 THEN b
            ELSE IF amount(f) > amount(ranked[c + 1]) THEN place[<<b, c>>] ELSE place[<<c, e>>]
  IN  IF ranked = <<>> THEN <<f>>
      ELSE IF amount(f) > amount(Head(ranked)) THEN <<f>> \o ranked
      ELSE IF amount(f) < amount(Last(ranked)) THEN Append(ranked, f)
      ELSE InsertAt(ranked, place[<<0, Len(ranked) - 1>>] + 1, f)

\* One firm goes to the front, to the end, or where a binary search says.
InsertFirm(pbu, side, ranked, f) ==
  LET amount(g) == pbu.data[g].current[side]
      place[i \in (0..Len(ranked)) \X (0..Len(ranked))] ==
        LET b == i[1]
            e == i[2]
            c == (b + e) \div 2
        IN  IF e - b <= 1 THEN e
            ELSE IF amount(f) > amount(ranked[c + 1]) THEN place[<<b, c>>] ELSE place[<<c, e>>]
  IN  IF ranked = <<>> THEN <<f>>
      ELSE IF amount(f) > amount(Head(ranked)) THEN <<f>> \o ranked
      ELSE IF amount(f) < amount(Last(ranked)) THEN Append(ranked, f)
      ELSE InsertAt(ranked, place[<<0, Len(ranked) - 1>>] + 1, f)

WithData(pbu) == {f \in Firms : pbu.data[f].pbuDataAdr}

\* The firms go into the empty list one by one, in the order of the firm list.
ResortPBUSortList(pbu) ==
  LET ranked == [side \in Sides |->
                   MapThenFoldSet(LAMBDA f, r : InsertFirm(pbu, side, r, f), <<>>,
                                  LAMBDA f : f, Max, WithData(pbu))]
      places(side) == {i \in DOMAIN ranked[side] : TRUE}
  IN  [pbu EXCEPT
        !.ranked = ranked,
        !.last = [side \in Sides |-> Len(ranked[side]) - 1],
        !.sortNo = [side \in Sides |-> [f \in Firms |->
           IF f \in WithData(pbu) THEN (CHOOSE i \in places(side) : ranked[side][i] = f) - 1
           ELSE @[side][f]]]]
-----------------------------------------------------------------------------
\* The ranking of a side: every firm with data once, the biggest amount first, and each
\* firm knows its place.
Ranked(pbu, side) ==
  LET ranked == pbu.ranked[side]
  IN  /\ pbu.last[side] = Cardinality(WithData(pbu)) - 1 /\ Len(ranked) = pbu.last[side] + 1
      /\ \A f \in WithData(pbu) :
           pbu.sortNo[side][f] + 1 \in DOMAIN ranked /\ ranked[pbu.sortNo[side][f] + 1] = f
      /\ \A i, j \in DOMAIN ranked :
           i < j => pbu.data[ranked[i]].current[side] >= pbu.data[ranked[j]].current[side]
=============================================================================
