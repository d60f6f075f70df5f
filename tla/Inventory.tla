----------------------------- MODULE Inventory -----------------------------
(***************************************************************************)
(* The movements of one article of the inventory (inventario-service.ts,   *)
(* registrar): purchases, issues to an order of work, returns and          *)
(* transfers of what was issued, and adjustments.                          *)
(*                                                                         *)
(* A request reads the movements and inserts its own in one transaction,   *)
(* at READ COMMITTED and with no lock: the two steps of each action here.  *)
(* A request that an issue, a return or a transfer overtakes is crossed,   *)
(* and what it then inserts is kept in raced.                              *)
(***************************************************************************)
EXTENDS Fractions, Sequences

CONSTANTS
  Clients,      \* requests in flight
  Entries,      \* purchases and adjustments that may be sent: [tipo, qty, cost, period, doc],
                \* cost with the expenses of the purchase, doc the identity or "none"
  Quantities,   \* quantities of the other movements
  Orders,       \* orders of work
  Scale,        \* units of the last of the four decimals kept: 10000 in the code
  Policies,     \* [ppp |-> MOVIL or PERIODO, return |-> COSTO_SALIDA or PPP_VIGENTE]
  MaxMoves      \* bound on the movements

\* What inventario.schema.ts lets through: positive quantities, no negative cost.
ASSUME InventoryAssumption ==
  /\ MaxMoves \in Nat /\ Scale \in Nat \ {0}
  /\ \A e \in Entries : /\ e.tipo \in {"INGRESO", "AJUSTE"}
                        /\ IsFraction(e.qty) /\ IsPositive(e.qty) /\ IsAmount(e.cost)
  /\ \A qty \in Quantities : IsFraction(qty) /\ IsPositive(qty)

VARIABLES
  policy,   \* the two policies of the company
  moves,    \* movimientos_inventario of the article, in the order of createdAt
  client,   \* locals of the requests in flight
  raced     \* history: a movement rested on a reading that no longer held

inventoryVars == <<policy, moves, client, raced>>

Waiting == [move |-> [tipo |-> "none"], crossed |-> FALSE]

InventoryInit ==
  /\ policy \in Policies
  /\ moves = << >>
  /\ client = [c \in Clients |-> Waiting]
  /\ raced = FALSE

-----------------------------------------------------------------------------
(* valuation.                                                                *)

\* +1 for what comes in, -1 for what goes out, 0 for what changes of order.
Sign(tipo) == CASE tipo = "SALIDA" -> Whole(-1) [] tipo = "TRANSFERENCIA" -> Zero
                [] OTHER -> One
Moved(S) == SumOver([i \in S |-> Times(Sign(moves[i].tipo), moves[i].qty)], S)
Valued(S) ==
  SumOver([i \in S |-> Times(Sign(moves[i].tipo), Times(moves[i].qty, moves[i].cost))], S)

OnHand == Moved(DOMAIN moves)
Worth  == Valued(DOMAIN moves)
Ppp    == IF OnHand = Zero THEN Zero ELSE Over(Worth, OnHand)

PurchasesOf(period) == {i \in DOMAIN moves : moves[i].tipo = "INGRESO" /\ moves[i].period = period}

\* The price of an issue of a month.
IssueCost(period) ==
  IF policy.ppp = "PERIODO" /\ Moved(PurchasesOf(period)) # Zero
  THEN Over(Valued(PurchasesOf(period)), Moved(PurchasesOf(period))) ELSE Ppp

Used(source) ==
  LET S == {i \in DOMAIN moves : moves[i].source = source}
  IN SumOver([i \in S |-> moves[i].qty], S)

-----------------------------------------------------------------------------
(* registrar.                                                                *)

Move(tipo, qty, cost, order, source, period, doc) ==
  [tipo |-> tipo, qty |-> qty, cost |-> cost, order |-> order, source |-> source,
   period |-> period, doc |-> doc]

\* Mutant: a cost cut at its last decimal.
KeptCut(move) ==
  [move EXCEPT !.qty = Stored(move.qty, Scale),
               !.cost = Fraction((move.cost[1] * Scale) \div move.cost[2], Scale)]

\* What is kept of a movement: the service rounds the cost, the column the quantity.
Kept(move) ==
  [move EXCEPT !.qty = Stored(move.qty, Scale), !.cost = Rounded(move.cost, Scale)]

\* A document that is already there is answered with its movement.
Imported(doc) == doc # "none" /\ \E i \in DOMAIN moves : moves[i].doc = doc

Accepts(c, move) ==
  /\ client[c] = Waiting
  /\ Len(moves) < MaxMoves
  /\ ~Imported(move.doc)
  /\ client' = [client EXCEPT ![c].move = Kept(move)]
  /\ UNCHANGED <<policy, moves, raced>>

Enter(c, e) == Accepts(c, Move(e.tipo, e.qty, e.cost, "none", 0, e.period, e.doc))

\* Mutant: as much as is asked for.
IssueAny(c, qty, order, period) ==
  Accepts(c, Move("SALIDA", qty, IssueCost(period), order, 0, period, "none"))

Issue(c, qty, order, period) ==
  /\ AtMost(qty, OnHand)
  /\ Accepts(c, Move("SALIDA", qty, IssueCost(period), order, 0, period, "none"))

\* DEVOLUCION and TRANSFERENCIA of what an issue took, as much as is left of it; a transfer
\* goes to another order.
GiveBack(c, tipo, source, qty, order) ==
  /\ tipo \in {"DEVOLUCION", "TRANSFERENCIA"}
  /\ source \in DOMAIN moves /\ moves[source].tipo = "SALIDA"
  /\ AtMost(Plus(qty, Used(source)), moves[source].qty)
  /\ (order = moves[source].order) <=> (tipo = "DEVOLUCION")
  /\ LET cost == IF tipo = "DEVOLUCION" /\ policy.return = "PPP_VIGENTE" THEN Ppp
                 ELSE moves[source].cost
     IN Accepts(c, Move(tipo, qty, cost, order, source, 0, "none"))

\* The insertion: the identity is unique, and a second one fails (or beyond MaxMoves).
Record(c) ==
  /\ client[c] # Waiting
  /\ IF Imported(client[c].move.doc) \/ Len(moves) = MaxMoves
     THEN /\ client' = [client EXCEPT ![c] = Waiting]
          /\ UNCHANGED <<moves, raced>>
     ELSE /\ moves' = Append(moves, client[c].move)
          /\ client' = [k \in Clients |->
               IF k = c THEN Waiting
               ELSE [client[k] EXCEPT !.crossed =
                       client[k] # Waiting /\ (@ \/ client[c].move.tipo \in {"SALIDA", "DEVOLUCION", "TRANSFERENCIA"})]]
          /\ raced' = (raced \/ (client[c].crossed /\ client[c].move.tipo \notin {"INGRESO", "AJUSTE"}))
  /\ UNCHANGED policy

InventoryNext ==
  \E c \in Clients :
    \/ \E e \in Entries : Enter(c, e)
    \/ \E qty \in Quantities, order \in Orders, period \in {e.period : e \in Entries} :
         Issue(c, qty, order, period)
    \/ \E tipo \in {"DEVOLUCION", "TRANSFERENCIA"}, source \in 1 .. MaxMoves,
          qty \in Quantities, order \in Orders : GiveBack(c, tipo, source, qty, order)
    \/ Record(c)

InventorySpec == InventoryInit /\ [][InventoryNext]_inventoryVars

-----------------------------------------------------------------------------
(* Properties, unless two issues or returns crossed.                         *)

\* Half a unit of the last decimal for each unit of qty.
HalfUnits(qty) == Over(qty, Whole(2 * Scale))
Issues == {i \in DOMAIN moves : moves[i].tipo = "SALIDA"}
Issued == SumOver([i \in Issues |-> moves[i].qty], Issues)

\* The stock is never below nothing.  At the moving average an emptied stock is left with the
\* rounding of the price of the issue that emptied it and no more, and, while nothing moved
\* at less than nothing, the worth is below nothing by the rounding of the issues at most.
StockIsWorthWhatEntered ==
  ~raced =>
    /\ ~IsNegative(OnHand)
    /\ policy.ppp = "MOVIL" =>
         /\ OnHand = Zero /\ Worth # Zero =>
              \E i \in Issues : Near(Worth, Zero, HalfUnits(moves[i].qty))
         /\ (\A i \in DOMAIN moves : ~IsNegative(moves[i].cost)) =>
              AtMost(Zero, Plus(Worth, HalfUnits(Issued)))

=============================================================================
