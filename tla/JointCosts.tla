----------------------------- MODULE JointCosts -----------------------------
(***************************************************************************)
(* The split of the joint cost of a department that is a separation point, *)
(* among the products that come out of it (joint-costs.ts), as it is saved *)
(* for a month and read again (joint-cost-service.ts).                     *)
(***************************************************************************)
EXTENDS Fractions, Sequences

CONSTANTS
  JointForms   \* what may be sent: [method, total, products], products a sequence of
               \* [units, yield, price, varPct, fixedPerUnit], NoData where left out

Methods == {"PHYSICAL_UNITS", "TECHNICAL_YIELD", "MARKET_VALUE", "NET_REALIZABLE_VALUE"}

\* The body of the request: amounts are not negative (joint-cost.schema.ts).
ASSUME JointFormsAssumption ==
  \A f \in JointForms :
    /\ f.method \in Methods /\ IsFraction(f.total)
    /\ Len(f.products) \in Nat /\ DOMAIN f.products = 1 .. Len(f.products)
    /\ \A i \in DOMAIN f.products :
         /\ IsFraction(f.products[i].units)
         /\ \A field \in {"yield", "price", "varPct", "fixedPerUnit"} :
              IsOptional(f.products[i][field])

VARIABLES
  split   \* JointCostAllocation and its ByProductLines, or NoSplit

NoSplit == [exists |-> FALSE]

JointCostsInit == split = NoSplit

-----------------------------------------------------------------------------
(* allocateByPhysicalUnits, ...ByTechnicalYield, ...ByMarketValue,           *)
(* ...ByNetRealizableValue: the base of a product.                           *)

SalesValue(p) == Times(p.units, p.price)
NetRealizable(p) ==
  Minus(Minus(SalesValue(p), Times(SalesValue(p), Default(p.varPct, Zero))),
        Times(p.units, Default(p.fixedPerUnit, Zero)))

BaseOf(method, p) ==
  CASE method = "PHYSICAL_UNITS"       -> p.units
    [] method = "TECHNICAL_YIELD"      -> p.yield
    [] method = "MARKET_VALUE"         -> SalesValue(p)
    [] method = "NET_REALIZABLE_VALUE" -> NetRealizable(p)

\* Mutant: a product that sells for less than its expenses takes part.
NoBaseOnlyMissing(method, p) ==
  \/ method = "TECHNICAL_YIELD" /\ ~Given(p.yield)
  \/ method \in {"MARKET_VALUE", "NET_REALIZABLE_VALUE"} /\ ~Given(p.price)

NoBase(method, p) ==
  \/ method = "TECHNICAL_YIELD" /\ ~Given(p.yield)
  \/ method \in {"MARKET_VALUE", "NET_REALIZABLE_VALUE"} /\ ~Given(p.price)
  \/ method = "NET_REALIZABLE_VALUE" /\ IsNegative(NetRealizable(p))

-----------------------------------------------------------------------------
(* allocate.                                                                 *)

TotalBase(f) == SumOver([i \in DOMAIN f.products |-> BaseOf(f.method, f.products[i])],
                        DOMAIN f.products)

RefusedSplit(f) ==
  \/ f.products = << >>
  \/ IsNegative(f.total)
  \/ \E i \in DOMAIN f.products : ~IsPositive(f.products[i].units) \/ NoBase(f.method, f.products[i])
  \/ ~IsPositive(TotalBase(f))

AllocatedCosts(f) ==
  [i \in DOMAIN f.products |->
    Times(Over(BaseOf(f.method, f.products[i]), TotalBase(f)), f.total)]

\* save: computed before anything is written; then, in one transaction, the header is
\* upserted and the lines replaced by those of the form.
SaveSplit(f) ==
  /\ ~RefusedSplit(f)
  /\ split' = [exists |-> TRUE, method |-> f.method, total |-> f.total, products |-> f.products,
               allocated |-> AllocatedCosts(f),
               unitCost |-> [i \in DOMAIN f.products |->
                               Over(AllocatedCosts(f)[i], f.products[i].units)]]

JointCostsNext == \E f \in JointForms : SaveSplit(f)

JointCostsSpec == JointCostsInit /\ [][JointCostsNext]_split

-----------------------------------------------------------------------------
(* Properties.                                                               *)

\* Whatever the method, and whichever was saved before, the lines bear the joint cost
\* whole, none of them less than nothing, and their unit costs say the same.
JointCostIsBorneWhole ==
  split.exists =>
    /\ SumOver(split.allocated, DOMAIN split.allocated) = split.total
    /\ SumOver([i \in DOMAIN split.products |-> Times(split.unitCost[i], split.products[i].units)],
               DOMAIN split.products) = split.total
    /\ \A i \in DOMAIN split.allocated : ~IsNegative(split.allocated[i])
=============================================================================
