---------------------------- MODULE PosSaleProofs ----------------------------
(***************************************************************************)
(* Theorems about PosSale, for any number of cashiers, managers, sales and *)
(* items.                                                                  *)
(*                                                                         *)
(* Typed holds of every reachable state.  SellersInv adds that a sale      *)
(* holds rows of lower items than those it waits for, which is why sales   *)
(* do not deadlock.  LedgerInv adds how far every request has moved every  *)
(* row, and that the sale it works on is still the one it read: what a     *)
(* commit writes is then a step of the ledger.  MaintainersInv adds what   *)
(* an edit knows of the rows it holds, which is why it oversells none of   *)
(* them.                                                                   *)
(***************************************************************************)
EXTENDS PosSale, WellFoundedInduction, TLAPS

USE PosAssumption

-----------------------------------------------------------------------------
(* Sets of numbers *)

LEMMA LeastNatural ==
  ASSUME NEW T \in SUBSET Nat, T # {}
  PROVE  \E x \in T : \A y \in T : x <= y
<1>1. PICK x \in T : \A y \in T : ~(<<y, x>> \in OpToRel(<, Nat))
  BY NatLessThanWellFounded, WFMin
<1>2. \A y \in T : ~(y < x)
  BY <1>1 DEF OpToRel
<1> QED
  BY <1>2

\* The item that is locked next is one of those left, and the lowest.
LEMMA LowestIsLeast ==
  ASSUME NEW S \in SUBSET Item, S # {}
  PROVE  Min(S) \in S /\ \A i \in S : Min(S) <= i
<1>1. \E x \in S : \A y \in S : x <= y
  BY LeastNatural DEF Item
<1> QED
  BY <1>1 DEF Min

LEMMA GreatestItem ==
  ASSUME NEW S \in SUBSET Item, S # {}
  PROVE  \E x \in S : \A y \in S : y <= x
<1> DEFINE T == {NItem - i : i \in S}
<1>1. \A i \in S : NItem - i \in Nat
  BY DEF Item
<1>1a. T \in SUBSET Nat /\ T # {}
  BY <1>1
<1>2. PICK t \in T : \A u \in T : t <= u
  BY <1>1a, LeastNatural
<1>3. PICK x \in S : t = NItem - x
  OBVIOUS
<1>4. \A y \in S : NItem - x <= NItem - y
  BY <1>2, <1>3
<1> QED
  BY <1>4 DEF Item

-----------------------------------------------------------------------------
(* Types *)

\* Whoever asks for quantities asks for some, and has one to issue.
Wanting ==
  \A p \in Request :
    /\ pc[p] \in {"check", "key", "find", "deduct", "restore", "look", "issue"} =>
         Support(tx[p].want) # {}
    /\ pc[p] = "issue" => tx[p].left # {}

\* Sales are made by sellers, changed by maintainers, and have a name.
Roles ==
  \A p \in Request :
    /\ pc[p] # "idle" => tx[p].id \in SaleId
    /\ pc[p] \in {"check", "key", "find", "deduct", "recheck"} => p \in Seller
    /\ pc[p] \in {"restore", "look", "issue", "putback"} => p \in Maintainer

Typed == TypeOK /\ Wanting /\ Roles

LEMMA TypedInit == Init => Typed
BY DEF Init, Typed, TypeOK, Wanting, Roles, NoTx, NoSaleYet, Nothing, Basket, Active, Request

LEMMA SeenIsInt ==
  ASSUME TypeOK, NEW p \in Request, NEW i \in Item
  PROVE  Seen(p, i) \in Int
BY DEF TypeOK, Seen

LEMMA LocksTyped ==
  ASSUME TypeOK, NEW p \in Request, ReleaseLocks(p)
  PROVE  /\ rowLock' \in [Item -> Request \cup {None}]
         /\ keyLock' \in [SaleId -> Seller \cup {None}]
         /\ saleLock' \in [SaleId -> Maintainer \cup {None}]
BY DEF TypeOK, ReleaseLocks, Unlocked

Tx == [id : SaleId \cup {None}, want : Basket, old : Basket,
       left : SUBSET Item, row : [Item -> Int], wrote : BOOLEAN]

LEMMA EmptyTx == NoTx \in Tx
BY DEF NoTx, Tx, Nothing, Basket

LEMMA TxOf ==
  ASSUME TypeOK, NEW p \in Request
  PROVE  /\ tx[p] \in Tx
         /\ tx[p].id \in SaleId \cup {None}
         /\ tx[p].want \in Basket /\ tx[p].old \in Basket
         /\ tx[p].left \in SUBSET Item /\ tx[p].row \in [Item -> Int]
         /\ tx[p].wrote \in BOOLEAN
BY DEF TypeOK, Tx

\* The variables of p after it has moved item i by q.
LEMMA MovedVars ==
  ASSUME TypeOK, NEW p \in Request, NEW i \in Item, NEW q \in Int
  PROVE  /\ Moved(p, i, q) \in Tx
         /\ Moved(p, i, q).id = tx[p].id
         /\ Moved(p, i, q).want = tx[p].want
         /\ Moved(p, i, q).old = tx[p].old
         /\ Moved(p, i, q).left = tx[p].left \ {i}
         /\ \A j \in Item : Moved(p, i, q).row[j] = IF j = i THEN Seen(p, i) + q
                                                            ELSE tx[p].row[j]
<1> DEFINE r == [tx[p].row EXCEPT ![i] = Seen(p, i) + q]
           l == tx[p].left \ {i}
           m == Moved(p, i, q)
<1>1. tx[p].row \in [Item -> Int] /\ tx[p] \in Tx /\ l \in SUBSET Item
  BY TxOf
<1>2. Seen(p, i) + q \in Int
  BY SeenIsInt
<1>3. r \in [Item -> Int]
  BY <1>1, <1>2
<1>4. \A j \in Item : r[j] = IF j = i THEN Seen(p, i) + q ELSE tx[p].row[j]
  BY <1>1
<1>5. m = [tx[p] EXCEPT !.row = r, !.left = l]
  BY DEF Moved
<1>6. /\ m \in Tx
      /\ m.id = tx[p].id /\ m.want = tx[p].want /\ m.old = tx[p].old
      /\ m.left = l /\ m.row = r
  <2> HIDE DEF r, l, m
  <2> QED
    BY <1>1, <1>3, <1>5 DEF Tx
<1> HIDE DEF r, m
<1>7. \A j \in Item : m.row[j] = IF j = i THEN Seen(p, i) + q ELSE tx[p].row[j]
  BY <1>4, <1>6
<1> QED
  BY <1>6, <1>7 DEF m

\* p goes to l with the variables t, and nobody else moves.
Goes(p, l, t) == pc' = [pc EXCEPT ![p] = l] /\ tx' = [tx EXCEPT ![p] = t]

Waits == {"check", "key", "find", "deduct", "restore", "look", "issue"}
SellerAt == {"check", "key", "find", "deduct", "recheck"}
MaintainerAt == {"restore", "look", "issue", "putback"}

LEMMA GoesTyped ==
  ASSUME Typed, NEW p \in Request, NEW t \in Tx, NEW l, Goes(p, l, t),
         l \in {"idle"} \cup SellerAt \cup MaintainerAt,
         l # "idle" => t.id \in SaleId,
         l \in Waits => Support(t.want) # {}, l = "issue" => t.left # {},
         l \in SellerAt => p \in Seller, l \in MaintainerAt => p \in Maintainer
  PROVE  /\ pc' \in [Request -> {"idle", "check", "key", "find", "deduct", "recheck",
                         "restore", "look", "issue", "putback"}]
         /\ tx' \in [Request -> Tx]
         /\ Wanting' /\ Roles'
BY DEF Typed, TypeOK, Goes, Wanting, Roles, Waits, SellerAt, MaintainerAt, Tx

SaleType == [status : {"none", "active", "deleted"}, items : Basket]

\* What a step has to do to its other variables to keep their types.
LEMMA RestTyped ==
  ASSUME Typed, NEW p \in Request, NEW t \in Tx, NEW l, Goes(p, l, t),
         l \in {"idle"} \cup SellerAt \cup MaintainerAt,
         l # "idle" => t.id \in SaleId,
         l \in Waits => Support(t.want) # {}, l = "issue" => t.left # {},
         l \in SellerAt => p \in Seller, l \in MaintainerAt => p \in Maintainer,
         stock' \in [Item -> Int],
         UNCHANGED sale \/ (/\ sale' \in [SaleId -> SaleType]
                           /\ \A s \in SaleId : Active(s)' => Support(sale'[s].items) # {}),
         rowLock' \in [Item -> Request \cup {None}],
         keyLock' \in [SaleId -> Seller \cup {None}],
         saleLock' \in [SaleId -> Maintainer \cup {None}],
         UNCHANGED answer \/ \E a \in {"none", "sold", "failed"} : answer' = [answer EXCEPT ![p] = a]
  PROVE  Typed'
<1>1. /\ pc' \in [Request -> {"idle", "check", "key", "find", "deduct", "recheck",
                         "restore", "look", "issue", "putback"}]
      /\ tx' \in [Request -> Tx]
      /\ Wanting' /\ Roles'
  BY GoesTyped
<1>2. answer' \in [Request -> {"none", "sold", "failed"}]
  BY DEF Typed, TypeOK
<1>3. /\ sale' \in [SaleId -> SaleType]
      /\ \A s \in SaleId : Active(s)' => Support(sale'[s].items) # {}
  <2>1. sale \in [SaleId -> SaleType] /\ \A s \in SaleId : Active(s) => Support(sale[s].items) # {}
    BY DEF Typed, TypeOK, SaleType
  <2> QED
    BY <2>1 DEF Active
<1> QED
  BY <1>1, <1>2, <1>3 DEF Typed, TypeOK, Tx, SaleType, Support

-----------------------------------------------------------------------------
(* What each step does to the request that takes it *)

LEMMA SubmitEffect ==
  ASSUME Typed, NEW p \in Request, Submit(p)
  PROVE  \/ /\ Goes(p, "idle", NoTx)
            /\ \E a \in {"sold", "failed"} : answer' = [answer EXCEPT ![p] = a]
         \/ \E s \in SaleId, t \in Tx :
              /\ Goes(p, "check", t)
              /\ t.id = s /\ t.want = Wanted[s] /\ t.left = Support(t.want)
              /\ answer' = [answer EXCEPT ![p] = "none"]
<1>1. PICK s \in SaleId :
       IF Active(s)
       THEN \E reply \in {"sold", "failed"} : Finish(p, reply)
       ELSE /\ tx' = [tx EXCEPT ![p] = [NoTx EXCEPT !.id = s, !.want = Wanted[s],
                                                   !.left = Support(Wanted[s])]]
            /\ Goto(p, "check")
            /\ answer' = [answer EXCEPT ![p] = "none"]
  BY DEF Submit
<1>2. CASE Active(s)
  BY <1>1, <1>2 DEF Finish, Goto, Goes
<1>3. CASE ~Active(s)
  <2> DEFINE b == Wanted[s]
             l == Support(b)
             t == [NoTx EXCEPT !.id = s, !.want = b, !.left = l]
  <2>1. b \in Basket /\ l \in SUBSET Item
    BY DEF Support
  <2>2. t \in Tx /\ t.id = s /\ t.want = b /\ t.left = l
    <3> HIDE DEF b, l
    <3> QED
      BY <2>1, EmptyTx DEF NoTx, Tx
  <2>3. Goes(p, "check", t) /\ answer' = [answer EXCEPT ![p] = "none"]
    BY <1>1, <1>3 DEF Goto, Goes
  <2> HIDE DEF t
  <2> QED
    BY <2>2, <2>3
<1> QED
  BY <1>2, <1>3

LEMMA RecheckableEffect ==
  ASSUME Typed, NEW p \in Request, pc[p] # "idle", NEW w \in BOOLEAN, Recheckable(p, w)
  PROVE  \E t \in Tx : Goes(p, "recheck", t) /\ t.id = tx[p].id /\ t.wrote = w
<1> DEFINE s == tx[p].id
           t == [NoTx EXCEPT !.id = s, !.wrote = w]
<1>1. s \in SaleId
  BY DEF Typed, Roles
<1>2. t \in Tx /\ t.id = s /\ t.wrote = w
  <2> HIDE DEF s
  <2> QED
    BY <1>1, EmptyTx DEF NoTx, Tx
<1>3. Goes(p, "recheck", t)
  BY DEF Recheckable, Goto, Goes
<1> HIDE DEF t
<1> QED
  BY <1>2, <1>3

LEMMA CheckItemEffect ==
  ASSUME Typed, NEW p \in Request, CheckItem(p)
  PROVE  \/ \E t \in Tx : Goes(p, "recheck", t) /\ t.id = tx[p].id
         \/ \E t \in Tx, l \in {"check", "key"} :
              /\ Goes(p, l, t)
              /\ t.id = tx[p].id /\ t.want = tx[p].want
              /\ l = "key" => t.left = Support(t.want)
<1>1. PICK i \in tx[p].left :
       IF Refused(p, i)
       THEN Recheckable(p, FALSE)
       ELSE /\ tx' = [tx EXCEPT ![p].left = IF @ = {i} THEN Support(tx[p].want) ELSE @ \ {i}]
            /\ IF tx[p].left = {i} THEN Goto(p, "key") ELSE UNCHANGED pc
  BY DEF CheckItem
<1>2. pc[p] = "check" /\ pc = [pc EXCEPT ![p] = "check"]
  BY DEF CheckItem, Typed, TypeOK
<1>3. CASE Refused(p, i)
  BY <1>1, <1>2, <1>3, RecheckableEffect
<1>4. CASE ~Refused(p, i)
  <2> DEFINE n == IF tx[p].left = {i} THEN Support(tx[p].want) ELSE tx[p].left \ {i}
             t == [tx[p] EXCEPT !.left = n]
             l == IF tx[p].left = {i} THEN "key" ELSE "check"
  <2>1. tx[p] \in Tx /\ n \in SUBSET Item
    BY TxOf DEF Typed, Support
  <2>2. t \in Tx /\ t.id = tx[p].id /\ t.want = tx[p].want /\ t.left = n
    <3> HIDE DEF n
    <3> QED
      BY <2>1 DEF Tx
  <2>3. tx' = [tx EXCEPT ![p] = t]
    BY <1>1, <1>4
  <2>4. pc' = [pc EXCEPT ![p] = l]
    BY <1>1, <1>2, <1>4 DEF Goto
  <2>5. l = "key" => t.left = Support(t.want)
    BY <2>2
  <2>6. Goes(p, l, t) /\ l \in {"check", "key"}
    BY <2>3, <2>4 DEF Goes
  <2> HIDE DEF t, l
  <2> QED
    BY <2>2, <2>5, <2>6
<1> QED
  BY <1>3, <1>4

LEMMA BeginEditEffect ==
  ASSUME Typed, NEW p \in Request, BeginEdit(p)
  PROVE  \E s \in SaleId, t \in Tx :
           /\ Goes(p, "restore", t)
           /\ t.id = s /\ t.want \in Edited /\ t.old = sale[s].items
           /\ t.left = Support(t.old)
           /\ saleLock[s] = None /\ Active(s)
           /\ saleLock' = [saleLock EXCEPT ![s] = p]
<1>1. PICK s \in SaleId, b \in Edited :
       /\ saleLock[s] = None /\ Active(s)
       /\ saleLock' = [saleLock EXCEPT ![s] = p]
       /\ tx' = [tx EXCEPT ![p] = [NoTx EXCEPT !.id = s, !.want = b, !.old = sale[s].items,
                                              !.left = Support(sale[s].items)]]
  BY DEF BeginEdit
<1> DEFINE o == sale[s].items
           l == Support(o)
           t == [NoTx EXCEPT !.id = s, !.want = b, !.old = o, !.left = l]
<1>2. b \in Basket /\ o \in Basket /\ l \in SUBSET Item
  BY DEF Typed, TypeOK, Support
<1>3. t \in Tx /\ t.id = s /\ t.want = b /\ t.old = o /\ t.left = l
  <2> HIDE DEF o, l
  <2> QED
    BY <1>2, EmptyTx DEF NoTx, Tx
<1>4. Goes(p, "restore", t)
  BY <1>1 DEF BeginEdit, Goto, Goes
<1> HIDE DEF t
<1> QED
  BY <1>1, <1>3, <1>4

LEMMA BeginDeleteEffect ==
  ASSUME Typed, NEW p \in Request, BeginDelete(p)
  PROVE  \E s \in SaleId, t \in Tx :
           /\ Goes(p, "putback", t)
           /\ t.id = s /\ t.old = sale[s].items /\ t.left = Support(t.old)
           /\ sale[s].status # "none"
<1>1. PICK s \in SaleId :
       /\ sale[s].status # "none"
       /\ tx' = [tx EXCEPT ![p] = [NoTx EXCEPT !.id = s, !.old = sale[s].items,
                                              !.left = Support(sale[s].items)]]
  BY DEF BeginDelete
<1> DEFINE o == sale[s].items
           l == Support(o)
           t == [NoTx EXCEPT !.id = s, !.old = o, !.left = l]
<1>2. o \in Basket /\ l \in SUBSET Item
  BY DEF Typed, TypeOK, Support
<1>3. t \in Tx /\ t.id = s /\ t.old = o /\ t.left = l
  <2> HIDE DEF o, l
  <2> QED
    BY <1>2, EmptyTx DEF NoTx, Tx
<1>4. Goes(p, "putback", t)
  BY <1>1 DEF BeginDelete, Goto, Goes
<1> HIDE DEF t
<1> QED
  BY <1>1, <1>3, <1>4

LEMMA BeginRebuildEffect ==
  ASSUME Typed, NEW p \in Request, BeginRebuild(p)
  PROVE  \E t \in Tx :
           /\ Goes(p, "look", t)
           /\ t.id = tx[p].id /\ t.want = tx[p].want /\ t.old = tx[p].old
           /\ t.row = tx[p].row /\ t.left = Support(t.want)
<1> DEFINE l == Support(tx[p].want)
           t == [tx[p] EXCEPT !.left = l]
<1>1. tx[p] \in Tx /\ l \in SUBSET Item
  BY TxOf DEF Typed, Support
<1>2. /\ t \in Tx /\ t.id = tx[p].id /\ t.want = tx[p].want /\ t.old = tx[p].old
      /\ t.row = tx[p].row /\ t.left = l
  <2> HIDE DEF l
  <2> QED
    BY <1>1 DEF Tx
<1>3. Goes(p, "look", t)
  BY DEF BeginRebuild, Goto, Goes
<1> HIDE DEF t
<1> QED
  BY <1>2, <1>3

\* A step that leaves the variables of the transaction alone.
LEMMA PcEffect ==
  ASSUME TypeOK, NEW p \in Request, NEW l, Goto(p, l), UNCHANGED tx
  PROVE  Goes(p, l, tx[p]) /\ tx[p] \in Tx
BY TxOf DEF TypeOK, Goto, Goes

\* A step that moves one item.
LEMMA MoveEffect ==
  ASSUME TypeOK, NEW p \in Request, NEW i \in Item, NEW q \in Int, Move(p, i, q),
         NEW l, pc' = [pc EXCEPT ![p] = l]
  PROVE  Goes(p, l, Moved(p, i, q))
BY DEF Move, Goes

\* The items that are moved are items, and the quantities integers.
LEMMA Quantities ==
  ASSUME TypeOK, NEW p \in Request, NEW i \in tx[p].left
  PROVE  /\ i \in Item
         /\ tx[p].want[i] \in Nat /\ tx[p].old[i] \in Nat
         /\ -tx[p].want[i] \in Int
         /\ Lowest(p) \in tx[p].left
<1>1. i \in Item /\ tx[p].want \in Basket /\ tx[p].old \in Basket
  BY TxOf
<1>2. Lowest(p) \in tx[p].left
  BY LowestIsLeast, TxOf DEF Lowest
<1>3. tx[p].want[i] \in Nat /\ tx[p].old[i] \in Nat
  BY <1>1 DEF Basket
<1> QED
  BY <1>1, <1>2, <1>3

-----------------------------------------------------------------------------
(* Types are kept *)

LEMMA SellerTyped ==
  ASSUME Typed, NEW p \in Request,
         Submit(p) \/ CheckItem(p) \/ LockKey(p) \/ InsertVoucher(p) \/ Deduct(p)
  PROVE  Typed'
<1> USE DEF Waits, SellerAt, MaintainerAt
<1>t. /\ stock \in [Item -> Int]
      /\ rowLock \in [Item -> Request \cup {None}]
      /\ keyLock \in [SaleId -> Seller \cup {None}]
      /\ saleLock \in [SaleId -> Maintainer \cup {None}]
  BY DEF Typed, TypeOK
<1>1. CASE Submit(p)
  <2>1. UNCHANGED <<Committed, Locks>> /\ p \in Seller
    BY <1>1 DEF Submit
  <2>2. ASSUME Goes(p, "idle", NoTx), NEW a \in {"sold", "failed"},
               answer' = [answer EXCEPT ![p] = a]
        PROVE  Typed'
    BY <1>t, <2>1, <2>2, EmptyTx, RestTyped DEF Committed, Locks
  <2>3. ASSUME NEW s \in SaleId, NEW t \in Tx, Goes(p, "check", t),
               t.id = s, t.want = Wanted[s], answer' = [answer EXCEPT ![p] = "none"]
        PROVE  Typed'
    BY <1>t, <2>1, <2>3, RestTyped DEF Committed, Locks
  <2> QED
    BY <1>1, <2>2, <2>3, SubmitEffect
<1>2. CASE CheckItem(p)
  <2>1. /\ UNCHANGED <<Committed, Locks, answer>> /\ pc[p] = "check"
        /\ p \in Seller /\ tx[p].id \in SaleId /\ Support(tx[p].want) # {}
    BY <1>2 DEF CheckItem, Typed, Roles, Wanting
  <2>2. ASSUME NEW t \in Tx, Goes(p, "recheck", t), t.id = tx[p].id
        PROVE  Typed'
    BY <1>t, <2>1, <2>2, RestTyped DEF Committed, Locks
  <2>3. ASSUME NEW t \in Tx, NEW l \in {"check", "key"}, Goes(p, l, t),
               t.id = tx[p].id, t.want = tx[p].want
        PROVE  Typed'
    BY <1>t, <2>1, <2>3, RestTyped DEF Committed, Locks
  <2> QED
    BY <1>2, <2>2, <2>3, CheckItemEffect
<1>3. CASE LockKey(p) \/ InsertVoucher(p)
  <2> DEFINE l == IF pc[p] = "key" THEN "find" ELSE "deduct"
  <2>1. /\ p \in Seller /\ tx[p].id \in SaleId /\ Support(tx[p].want) # {}
        /\ UNCHANGED <<Committed, rowLock, saleLock, tx, answer>>
        /\ Goto(p, l) /\ l \in {"find", "deduct"}
    BY <1>3 DEF LockKey, InsertVoucher, Typed, Roles, Wanting, Locks
  <2>2. keyLock' \in [SaleId -> Seller \cup {None}]
    BY <1>3, <1>t, <2>1 DEF LockKey, InsertVoucher, Locks
  <2>3. Goes(p, l, tx[p]) /\ tx[p] \in Tx
    BY <2>1, PcEffect DEF Typed
  <2> HIDE DEF l
  <2> QED
    BY <1>t, <2>1, <2>2, <2>3, RestTyped DEF Committed
<1>4. CASE Deduct(p)
  <2> DEFINE i == Lowest(p)
             q == -tx[p].want[i]
  <2>1. /\ p \in Seller /\ tx[p].id \in SaleId /\ Support(tx[p].want) # {}
        /\ UNCHANGED <<Committed, keyLock, saleLock, answer>>
        /\ pc' = [pc EXCEPT ![p] = "deduct"] /\ Move(p, i, q)
        /\ tx[p].left # {}
    BY <1>4 DEF Deduct, Typed, TypeOK, Roles, Wanting
  <2>2. i \in Item /\ q \in Int
    BY <2>1, Quantities DEF Typed
  <2> HIDE DEF i, q
  <2>3. Goes(p, "deduct", Moved(p, i, q))
    BY <2>1, <2>2, MoveEffect DEF Typed
  <2>4. /\ Moved(p, i, q) \in Tx
        /\ Moved(p, i, q).id = tx[p].id /\ Moved(p, i, q).want = tx[p].want
    BY <2>2, MovedVars DEF Typed
  <2>5. rowLock' \in [Item -> Request \cup {None}]
    BY <1>t, <2>1 DEF Move
  <2> QED
    BY <1>t, <2>1, <2>3, <2>4, <2>5, RestTyped DEF Committed
<1> QED
  BY <1>1, <1>2, <1>3, <1>4

LEMMA MaintainerTyped ==
  ASSUME Typed, NEW p \in Request,
         BeginEdit(p) \/ Restore(p) \/ BeginRebuild(p)
           \/ Issue(p) \/ BeginDelete(p) \/ PutBack(p)
  PROVE  Typed'
<1> USE DEF Waits, SellerAt, MaintainerAt
<1>t. /\ stock \in [Item -> Int]
      /\ rowLock \in [Item -> Request \cup {None}]
      /\ keyLock \in [SaleId -> Seller \cup {None}]
      /\ saleLock \in [SaleId -> Maintainer \cup {None}]
  BY DEF Typed, TypeOK
<1>1. CASE BeginEdit(p)
  <2>1. UNCHANGED <<Committed, rowLock, keyLock, answer>> /\ p \in Maintainer
    BY <1>1 DEF BeginEdit
  <2>2. PICK s \in SaleId, t \in Tx :
           /\ Goes(p, "restore", t)
           /\ t.id = s /\ t.want \in Edited
           /\ saleLock' = [saleLock EXCEPT ![s] = p]
    BY <1>1, BeginEditEffect
  <2>3. saleLock' \in [SaleId -> Maintainer \cup {None}]
    BY <1>t, <2>1, <2>2
  <2> QED
    BY <1>t, <2>1, <2>2, <2>3, RestTyped DEF Committed
<1>2. CASE BeginRebuild(p)
  <2>1. /\ UNCHANGED <<Committed, Locks, answer>> /\ p \in Maintainer
        /\ tx[p].id \in SaleId /\ Support(tx[p].want) # {}
    BY <1>2 DEF BeginRebuild, Typed, Roles, Wanting
  <2>2. PICK t \in Tx : Goes(p, "look", t) /\ t.id = tx[p].id /\ t.want = tx[p].want
    BY <1>2, BeginRebuildEffect
  <2> QED
    BY <1>t, <2>1, <2>2, RestTyped DEF Committed, Locks
<1>3. CASE BeginDelete(p)
  <2>1. UNCHANGED <<Committed, Locks, answer>> /\ p \in Maintainer
    BY <1>3 DEF BeginDelete
  <2>2. PICK s \in SaleId, t \in Tx : Goes(p, "putback", t) /\ t.id = s
    BY <1>3, BeginDeleteEffect
  <2> QED
    BY <1>t, <2>1, <2>2, RestTyped DEF Committed, Locks
<1>4. CASE Restore(p) \/ Issue(p) \/ PutBack(p)
  <2>1. PICK i \in tx[p].left, q \in Int, l \in {"restore", "look", "putback"} :
          /\ Move(p, i, q) /\ pc' = [pc EXCEPT ![p] = l]
          /\ l # "putback" => Support(tx[p].want) # {}
    <3>1. CASE Restore(p)
      <4>1. pc[p] = "restore" /\ tx[p].left # {} /\ UNCHANGED pc
            /\ Move(p, Lowest(p), tx[p].old[Lowest(p)])
        BY <3>1 DEF Restore
      <4>2. Lowest(p) \in tx[p].left /\ tx[p].old[Lowest(p)] \in Int
        BY <4>1, Quantities DEF Typed
      <4>3. pc' = [pc EXCEPT ![p] = "restore"] /\ Support(tx[p].want) # {}
        BY <4>1 DEF Typed, TypeOK, Wanting
      <4> QED
        BY <4>1, <4>2, <4>3
    <3>2. CASE Issue(p)
      <4>1. pc[p] = "issue" /\ Move(p, Lowest(p), -tx[p].want[Lowest(p)]) /\ Goto(p, "look")
        BY <3>2 DEF Issue
      <4>2. tx[p].left # {} /\ Support(tx[p].want) # {}
        BY <4>1 DEF Typed, Wanting
      <4>3. Lowest(p) \in tx[p].left /\ -tx[p].want[Lowest(p)] \in Int
        BY <4>2, Quantities DEF Typed
      <4> QED
        BY <4>1, <4>2, <4>3 DEF Goto
    <3>3. CASE PutBack(p)
      <4>1. PICK i \in tx[p].left : Move(p, i, tx[p].old[i])
        BY <3>3 DEF PutBack
      <4>2. tx[p].old[i] \in Int
        BY <4>1, Quantities DEF Typed
      <4>3. pc' = [pc EXCEPT ![p] = "putback"]
        BY <3>3 DEF PutBack, Typed, TypeOK
      <4> QED
        BY <4>1, <4>2, <4>3
    <3> QED
      BY <1>4, <3>1, <3>2, <3>3
  <2>2. /\ p \in Maintainer /\ tx[p].id \in SaleId
        /\ UNCHANGED <<Committed, keyLock, saleLock, answer>>
    BY <1>4 DEF Restore, Issue, PutBack, Typed, Roles
  <2>3. i \in Item
    BY <2>1, Quantities DEF Typed
  <2>4. Goes(p, l, Moved(p, i, q))
    BY <2>1, <2>3, MoveEffect DEF Typed
  <2>5. /\ Moved(p, i, q) \in Tx
        /\ Moved(p, i, q).id = tx[p].id /\ Moved(p, i, q).want = tx[p].want
    BY <2>3, MovedVars DEF Typed
  <2>6. rowLock' \in [Item -> Request \cup {None}]
    BY <1>t, <2>1 DEF Move
  <2> QED
    BY <1>t, <2>1, <2>2, <2>4, <2>5, <2>6, RestTyped DEF Committed
<1> QED
  BY <1>1, <1>2, <1>3, <1>4

\* The ends of a transaction, and of a request.
LEMMA EndTyped ==
  ASSUME Typed, NEW p \in Request,
         Replay(p) \/ Collide(p) \/ Refuse(p) \/ Recheck(p) \/ Look(p)
           \/ Fail(p) \/ PassOn(p) \/ Lose(p)
  PROVE  Typed'
<1> USE DEF Waits, SellerAt, MaintainerAt
<1>t. /\ stock \in [Item -> Int]
      /\ rowLock \in [Item -> Request \cup {None}]
      /\ keyLock \in [SaleId -> Seller \cup {None}]
      /\ saleLock \in [SaleId -> Maintainer \cup {None}]
  BY DEF Typed, TypeOK
<1>1. ASSUME NEW a \in {"none", "sold", "failed"}, Finish(p, a),
             Rollback(p) \/ UNCHANGED <<Committed, Locks>>
      PROVE  Typed'
  <2>1. /\ rowLock' \in [Item -> Request \cup {None}]
        /\ keyLock' \in [SaleId -> Seller \cup {None}]
        /\ saleLock' \in [SaleId -> Maintainer \cup {None}]
        /\ UNCHANGED Committed
    BY <1>t, <1>1, LocksTyped DEF Rollback, Locks, Typed
  <2>2. Goes(p, "idle", NoTx) /\ answer' = [answer EXCEPT ![p] = a]
    BY <1>1 DEF Finish, Goto, Goes
  <2> QED
    BY <1>t, <2>1, <2>2, EmptyTx, RestTyped DEF Committed
<1>2. ASSUME Recheckable(p, FALSE), Rollback(p), UNCHANGED answer, p \in Seller, pc[p] # "idle"
      PROVE  Typed'
  <2>1. /\ rowLock' \in [Item -> Request \cup {None}]
        /\ keyLock' \in [SaleId -> Seller \cup {None}]
        /\ saleLock' \in [SaleId -> Maintainer \cup {None}]
        /\ UNCHANGED Committed
    BY <1>2, LocksTyped DEF Rollback, Typed
  <2>2. PICK t \in Tx : Goes(p, "recheck", t) /\ t.id = tx[p].id
    BY <1>2, RecheckableEffect
  <2>3. tx[p].id \in SaleId
    BY <1>2 DEF Typed, Roles
  <2> QED
    BY <1>t, <1>2, <2>1, <2>2, <2>3, RestTyped DEF Committed
<1>3. CASE Replay(p)
  BY <1>1, <1>3 DEF Replay
<1>4. CASE Collide(p) \/ Refuse(p)
  BY <1>2, <1>4 DEF Collide, Refuse, Typed, Roles
<1>5. CASE Recheck(p)
  BY <1>1, <1>5 DEF Recheck
<1>6. CASE Look(p)
  <2>1. CASE Refused(p, Lowest(p))
    BY <1>1, <1>6, <2>1 DEF Look
  <2>2. CASE ~Refused(p, Lowest(p))
    <3>1. /\ UNCHANGED <<Committed, Locks, tx, answer>> /\ Goto(p, "issue")
          /\ p \in Maintainer /\ tx[p].id \in SaleId /\ Support(tx[p].want) # {}
          /\ tx[p].left # {}
      BY <1>6, <2>2 DEF Look, Typed, Roles, Wanting
    <3>2. Goes(p, "issue", tx[p]) /\ tx[p] \in Tx
      BY <3>1, PcEffect DEF Typed
    <3> QED
      BY <1>t, <3>1, <3>2, RestTyped DEF Committed, Locks
  <2> QED
    BY <2>1, <2>2
<1>7. CASE Fail(p)
  BY <1>1, <1>2, <1>7 DEF Fail
<1>8. CASE PassOn(p) \/ Lose(p)
  BY <1>1, <1>8 DEF PassOn, Lose
<1> QED
  BY <1>3, <1>4, <1>5, <1>6, <1>7, <1>8

LEMMA CommitTyped ==
  ASSUME Typed, NEW p \in Request, CommitSale(p) \/ CommitEdit(p) \/ CommitDelete(p)
  PROVE  Typed'
<1> USE DEF Waits, SellerAt, MaintainerAt
<1>1. /\ rowLock' \in [Item -> Request \cup {None}]
      /\ keyLock' \in [SaleId -> Seller \cup {None}]
      /\ saleLock' \in [SaleId -> Maintainer \cup {None}]
      /\ stock' \in [Item -> Int]
      /\ tx[p].id \in SaleId
  <2>1. CommitRows(p) /\ tx[p].id \in SaleId
    BY DEF CommitSale, CommitEdit, CommitDelete, Typed, Roles
  <2>2. stock' \in [Item -> Int]
    BY <2>1, SeenIsInt DEF CommitRows, Typed
  <2> QED
    BY <2>1, <2>2, LocksTyped DEF CommitRows, Typed
<1>2. /\ sale' \in [SaleId -> SaleType]
      /\ \A s \in SaleId : Active(s)' => Support(sale'[s].items) # {}
  <2>t. /\ sale \in [SaleId -> SaleType] /\ tx[p].want \in Basket /\ Nothing \in Basket
        /\ \A s \in SaleId : Active(s) => Support(sale[s].items) # {}
    BY TxOf DEF Typed, TypeOK, SaleType, Basket, Nothing
  <2>1. CASE CommitSale(p)
    <3>1. sale' = [sale EXCEPT ![tx[p].id] = [status |-> "active", items |-> tx[p].want]]
          /\ Support(tx[p].want) # {}
      BY <2>1 DEF CommitSale, Typed, Wanting
    <3> QED
      BY <1>1, <2>t, <3>1 DEF SaleType, Active
  <2>2. CASE CommitEdit(p)
    <3>1. sale' = [sale EXCEPT ![tx[p].id].items = tx[p].want] /\ Support(tx[p].want) # {}
      BY <2>2 DEF CommitEdit, Typed, Wanting
    <3> DEFINE e == [sale[tx[p].id] EXCEPT !.items = tx[p].want]
    <3>2. e \in SaleType /\ e.items = tx[p].want
      BY <1>1, <2>t DEF SaleType
    <3>3. sale' = [sale EXCEPT ![tx[p].id] = e]
      BY <3>1
    <3> HIDE DEF e
    <3> QED
      BY <1>1, <2>t, <3>1, <3>2, <3>3 DEF Active
  <2>3. CASE CommitDelete(p)
    <3>1. PICK rest \in {Nothing} \cup ({sale[tx[p].id].items} \ {tx[p].old}) :
            sale' = [sale EXCEPT ![tx[p].id] = [status |-> "deleted", items |-> rest]]
      BY <2>3 DEF CommitDelete
    <3>2. rest \in Basket
      BY <1>1, <2>t DEF SaleType
    <3> QED
      BY <1>1, <2>t, <3>1, <3>2 DEF SaleType, Active
  <2> QED
    BY <2>1, <2>2, <2>3
<1>3. ASSUME NEW a \in {"none", "sold"}, Finish(p, a)
      PROVE  Typed'
  <2>1. Goes(p, "idle", NoTx) /\ answer' = [answer EXCEPT ![p] = a]
    BY <1>3 DEF Finish, Goto, Goes
  <2> QED
    BY <1>1, <1>2, <2>1, EmptyTx, RestTyped
<1>4. ASSUME Recheckable(p, TRUE), UNCHANGED answer, p \in Seller, pc[p] # "idle"
      PROVE  Typed'
  <2>1. PICK t \in Tx : Goes(p, "recheck", t) /\ t.id = tx[p].id
    BY <1>4, RecheckableEffect
  <2> QED
    BY <1>1, <1>2, <1>4, <2>1, RestTyped
<1> QED
  BY <1>3, <1>4 DEF CommitSale, CommitEdit, CommitDelete, Typed, Roles

LEMMA NextTyped == Typed /\ [Next]_vars => Typed'
<1> SUFFICES ASSUME Typed, [Next]_vars PROVE Typed'
  OBVIOUS
<1>1. CASE UNCHANGED vars
  BY <1>1 DEF vars, Typed, TypeOK, Wanting, Roles, Active, Support
<1>2. CASE Next
  <2> PICK p \in Request :
        \/ Advance(p) \/ Submit(p) \/ BeginEdit(p) \/ BeginDelete(p)
        \/ Fail(p) \/ PassOn(p) \/ Lose(p)
    BY <1>2 DEF Next
  <2> QED
    BY SellerTyped, MaintainerTyped, EndTyped, CommitTyped DEF Advance
<1> QED
  BY <1>1, <1>2

\* Every variable keeps its type, and an active sale has something on it.
THEOREM TypeCorrect == Spec => []TypeOK
<1>1. Typed => TypeOK
  BY DEF Typed
<1> QED
  BY <1>1, TypedInit, NextTyped, PTL DEF Spec

-----------------------------------------------------------------------------
(* What a step leaves to the others *)

Step(p) ==
  \/ Advance(p) \/ Submit(p) \/ BeginEdit(p) \/ BeginDelete(p)
  \/ Fail(p) \/ PassOn(p) \/ Lose(p)

\* q's place, variables and locks are what they were.
Undisturbed(q) ==
  /\ pc'[q] = pc[q] /\ tx'[q] = tx[q]
  /\ \A i \in Item : rowLock'[i] = q <=> rowLock[i] = q
  /\ \A s \in SaleId : keyLock'[s] = q <=> keyLock[s] = q
  /\ \A s \in SaleId : saleLock'[s] = q <=> saleLock[s] = q

LEMMA ReleaseUndisturbed ==
  ASSUME Typed, NEW p \in Request, ReleaseLocks(p), NEW q \in Request, q # p
  PROVE  /\ \A i \in Item : rowLock'[i] = q <=> rowLock[i] = q
         /\ \A s \in SaleId : keyLock'[s] = q <=> keyLock[s] = q
         /\ \A s \in SaleId : saleLock'[s] = q <=> saleLock[s] = q
         /\ \A i \in Item : rowLock'[i] # p
         /\ \A s \in SaleId : keyLock'[s] # p
         /\ \A s \in SaleId : saleLock'[s] # p
BY DEF Typed, TypeOK, ReleaseLocks, Unlocked

LEMMA MoveUndisturbed ==
  ASSUME Typed, NEW p \in Request, NEW i, NEW d, Move(p, i, d), NEW q \in Request, q # p
  PROVE  /\ tx'[q] = tx[q]
         /\ \A j \in Item : rowLock'[j] = q <=> rowLock[j] = q
BY DEF Typed, TypeOK, Move, Free

LEMMA Frame ==
  ASSUME Typed, NEW p \in Request, Step(p), NEW q \in Request, q # p
  PROVE  Undisturbed(q)
<1>t. pc \in [Request -> {"idle"} \cup SellerAt \cup MaintainerAt] /\ tx \in [Request -> Tx]
  <2>1. tx \in [Request -> Tx]
    BY DEF Typed, TypeOK, Tx
  <2>2. pc \in [Request -> {"idle"} \cup SellerAt \cup MaintainerAt]
    BY DEF Typed, TypeOK, SellerAt, MaintainerAt
  <2> QED
    BY <2>1, <2>2
<1>1. ASSUME NEW a, Finish(p, a), Rollback(p) \/ CommitRows(p) \/ UNCHANGED Locks
      PROVE  Undisturbed(q)
  BY <1>1, <1>t, ReleaseUndisturbed DEF Finish, Goto, Rollback, CommitRows, Locks, Undisturbed
<1>2. ASSUME NEW w, Recheckable(p, w), Rollback(p) \/ CommitRows(p) \/ UNCHANGED Locks
      PROVE  Undisturbed(q)
  BY <1>2, <1>t, ReleaseUndisturbed DEF Recheckable, Goto, Rollback, CommitRows, Locks, Undisturbed
<1>3. CASE Submit(p)
  BY <1>1, <1>3, <1>t DEF Submit, Goto, Locks, Undisturbed
<1>4. CASE CheckItem(p)
  BY <1>2, <1>4, <1>t DEF CheckItem, Goto, Locks, Undisturbed
<1>5. CASE LockKey(p)
  BY <1>5, <1>t DEF LockKey, Goto, Undisturbed, Typed, TypeOK
<1>6. CASE InsertVoucher(p) \/ BeginRebuild(p) \/ BeginDelete(p)
  BY <1>6, <1>t DEF InsertVoucher, BeginRebuild, BeginDelete, Goto, Locks, Undisturbed
<1>7. CASE \/ Replay(p) \/ Collide(p) \/ Refuse(p) \/ Recheck(p)
           \/ Fail(p) \/ PassOn(p) \/ Lose(p)
  BY <1>1, <1>2, <1>7 DEF Replay, Collide, Refuse, Recheck, Fail, PassOn, Lose
<1>8. CASE CommitSale(p) \/ CommitEdit(p) \/ CommitDelete(p)
  BY <1>1, <1>2, <1>8 DEF CommitSale, CommitEdit, CommitDelete
<1>9. CASE Deduct(p) \/ Restore(p) \/ Issue(p) \/ PutBack(p)
  <2>1. PICK i, d : Move(p, i, d)
    BY <1>9 DEF Deduct, Restore, Issue, PutBack
  <2>2. pc'[q] = pc[q] /\ UNCHANGED <<keyLock, saleLock>>
    BY <1>9, <1>t DEF Deduct, Restore, Issue, PutBack, Goto
  <2> QED
    BY <2>1, <2>2, MoveUndisturbed DEF Undisturbed
<1>10. CASE Look(p)
  BY <1>1, <1>10, <1>t DEF Look, Goto, Locks, Undisturbed
<1>11. CASE BeginEdit(p)
  BY <1>11, <1>t DEF BeginEdit, Goto, Undisturbed, Typed, TypeOK
<1> QED
  BY <1>3, <1>4, <1>5, <1>6, <1>7, <1>8, <1>9, <1>10, <1>11 DEF Step, Advance

-----------------------------------------------------------------------------
(* Sales hold the rows of lower items than those they wait for *)

\* The rows a sale holds come before those it still needs, and if its user may
\* not oversell, they are not below zero.
RowsInOrder(p) ==
  \A i \in Item :
    rowLock[i] = p =>
      /\ pc[p] = "deduct"
      /\ \A j \in tx[p].left : i < j
      /\ p \notin Privileged => tx[p].row[i] >= 0

KeyHeld(p) ==
  \A s \in SaleId : keyLock[s] = p => pc[p] \in {"find", "deduct"} /\ tx[p].id = s

SellersInv == \A p \in Seller : RowsInOrder(p) /\ KeyHeld(p)

LEMMA SellersInit == Init => SellersInv
BY DEF Init, SellersInv, RowsInOrder, KeyHeld, Request

LEMMA SellersUndisturbed ==
  ASSUME Typed, SellersInv, NEW q \in Seller, Undisturbed(q)
  PROVE  RowsInOrder(q)' /\ KeyHeld(q)'
BY DEF SellersInv, RowsInOrder, KeyHeld, Undisturbed

LEMMA DeductInOrder ==
  ASSUME Typed, SellersInv, NEW p \in Seller, Deduct(p)
  PROVE  RowsInOrder(p)' /\ KeyHeld(p)'
<1> DEFINE i == Lowest(p)
           d == -tx[p].want[i]
<1>1. /\ pc[p] = "deduct" /\ tx[p].left # {} /\ ~Refused(p, i) /\ Move(p, i, d)
      /\ UNCHANGED <<keyLock, pc>> /\ p \in Request
  BY DEF Deduct, Request
<1>2. i \in tx[p].left /\ i \in Item /\ d \in Int /\ tx[p].want[i] \in Nat
  BY <1>1, Quantities DEF Typed
<1>3. /\ Moved(p, i, d).id = tx[p].id
      /\ Moved(p, i, d).left = tx[p].left \ {i}
      /\ \A j \in Item : Moved(p, i, d).row[j] = IF j = i THEN Seen(p, i) + d
                                                          ELSE tx[p].row[j]
  <2> HIDE DEF i, d
  <2> QED
    BY <1>1, <1>2, MovedVars DEF Typed
<1>4. /\ tx'[p].id = tx[p].id /\ tx'[p].left = tx[p].left \ {i}
      /\ \A j \in Item : tx'[p].row[j] = IF j = i THEN Seen(p, i) + d ELSE tx[p].row[j]
  <2> HIDE DEF i, d
  <2>1. tx'[p] = Moved(p, i, d)
    BY <1>1 DEF Move, Typed, TypeOK
  <2> QED
    BY <1>3, <2>1
<1>5. rowLock' = [rowLock EXCEPT ![i] = p]
  BY <1>1 DEF Move
<1>6. \A j \in tx[p].left : i <= j
  BY LowestIsLeast, TxOf, <1>1 DEF Lowest, Typed
<1>7. Seen(p, i) \in Int /\ (p \notin Privileged => Seen(p, i) + d >= 0)
  BY <1>1, <1>2, SeenIsInt DEF Refused, Typed
<1>8. \A j \in tx[p].left \ {i} : i < j
  BY <1>2, <1>6, TxOf, <1>1 DEF Item, Typed
<1> HIDE DEF i, d
<1>9. RowsInOrder(p)'
  <2> SUFFICES ASSUME NEW k \in Item, rowLock'[k] = p
               PROVE  /\ pc'[p] = "deduct"
                      /\ \A j \in tx'[p].left : k < j
                      /\ p \notin Privileged => tx'[p].row[k] >= 0
    BY DEF RowsInOrder
  <2>1. CASE k = i
    BY <1>1, <1>4, <1>7, <1>8, <2>1
  <2>2. CASE k # i
    <3>1. rowLock[k] = p
      BY <1>5, <2>2 DEF Typed, TypeOK
    <3>2. (\A j \in tx[p].left : k < j) /\ (p \notin Privileged => tx[p].row[k] >= 0)
      BY <3>1 DEF SellersInv, RowsInOrder
    <3> QED
      BY <1>1, <1>4, <2>2, <3>2
  <2> QED
    BY <2>1, <2>2
<1>10. KeyHeld(p)'
  BY <1>1, <1>4 DEF SellersInv, KeyHeld
<1> QED
  BY <1>9, <1>10

LEMMA SellersStep == Typed /\ SellersInv /\ [Next]_vars => SellersInv'
<1> SUFFICES ASSUME Typed, SellersInv, [Next]_vars PROVE SellersInv'
  OBVIOUS
<1>1. CASE UNCHANGED vars
  BY <1>1 DEF vars, SellersInv, RowsInOrder, KeyHeld
<1>2. CASE Next
  <2> PICK p \in Request : Step(p)
    BY <1>2 DEF Next, Step
  <2> SUFFICES ASSUME p \in Seller PROVE RowsInOrder(p)' /\ KeyHeld(p)'
    BY Frame, SellersUndisturbed DEF SellersInv, Request
  <2>1. ASSUME ReleaseLocks(p)
        PROVE  RowsInOrder(p)' /\ KeyHeld(p)'
    BY <2>1 DEF ReleaseLocks, Unlocked, RowsInOrder, KeyHeld, Typed, TypeOK
  <2>2. ASSUME UNCHANGED <<rowLock, keyLock>>, pc[p] \notin {"find", "deduct"}
        PROVE  RowsInOrder(p)' /\ KeyHeld(p)'
    BY <2>2 DEF SellersInv, RowsInOrder, KeyHeld
  <2>3. CASE Submit(p) \/ CheckItem(p) \/ Recheck(p) \/ PassOn(p)
    BY <2>2, <2>3 DEF Submit, CheckItem, Recheck, PassOn, Locks
  <2>4. CASE LockKey(p)
    BY <2>4 DEF LockKey, SellersInv, RowsInOrder, KeyHeld, Goto, Typed, TypeOK
  <2>5. CASE Replay(p) \/ Collide(p) \/ Refuse(p) \/ CommitSale(p) \/ Fail(p) \/ Lose(p)
              \/ CommitEdit(p) \/ CommitDelete(p)
    BY <2>1, <2>5 DEF Replay, Collide, Refuse, CommitSale, CommitEdit, CommitDelete, Fail, Lose,
                      Rollback, CommitRows
  <2>6. CASE InsertVoucher(p)
    BY <2>6 DEF InsertVoucher, SellersInv, RowsInOrder, KeyHeld, Goto, Typed, TypeOK, Locks
  <2>7. CASE Deduct(p)
    BY <2>7, DeductInOrder
  <2>8. CASE Restore(p) \/ BeginRebuild(p) \/ Look(p) \/ Issue(p) \/ PutBack(p)
              \/ BeginEdit(p) \/ BeginDelete(p)
    BY <2>8 DEF Restore, BeginRebuild, Look, Issue, PutBack, BeginEdit, BeginDelete, Typed, Roles
  <2> QED
    BY <2>3, <2>4, <2>5, <2>6, <2>7, <2>8 DEF Step, Advance
<1> QED
  BY <1>1, <1>2

LEMMA SellersAlways == Spec => [](Typed /\ SellersInv)
BY TypedInit, NextTyped, SellersInit, SellersStep, PTL DEF Spec

\* No set of sales waits on itself: each of them waits either for the holder of
\* its client sale id, who is at work, or for a row above all those it holds.
LEMMA SellersGoOn == Typed /\ SellersInv => SalesNeverDeadlock
<1> SUFFICES ASSUME Typed, SellersInv, NEW S \in SUBSET Seller, Stuck(S) PROVE FALSE
  BY DEF SalesNeverDeadlock
<1> DEFINE D == {p \in S : pc[p] = "deduct"}
<1>1. \A p \in S : /\ p \in Request /\ Holders(p) # {} /\ Holders(p) \subseteq S
                   /\ pc[p] \in {"idle", "check", "key", "find", "deduct", "recheck"}
  BY DEF Stuck, Request, Typed, Roles, TypeOK
<1>2. \A p \in D : /\ tx[p].left # {} /\ Lowest(p) \in Item
                   /\ rowLock[Lowest(p)] \in S
                   /\ rowLock[Lowest(p)] # None
  <2> SUFFICES ASSUME NEW p \in D
               PROVE  /\ tx[p].left # {} /\ Lowest(p) \in Item
                      /\ rowLock[Lowest(p)] \in S
                      /\ rowLock[Lowest(p)] # None
    OBVIOUS
  <2>1. /\ Awaited(p) = IF tx[p].left # {} THEN {Lowest(p)} ELSE {}
        /\ Holders(p) = IF \E i \in Awaited(p) : Free(rowLock[i], p) THEN {}
                        ELSE {rowLock[i] : i \in Awaited(p)}
    BY DEF Awaited, Holders
  <2>2. tx[p].left # {}
    BY <1>1, <2>1
  <2>3. Lowest(p) \in Item
    BY <1>1, <2>2, Quantities DEF Typed
  <2> QED
    BY <1>1, <2>1, <2>2, <2>3 DEF Free
<1>3. D # {}
  <2>1. PICK p \in S : TRUE
    BY DEF Stuck
  <2>2. CASE pc[p] = "deduct"
    BY <2>2
  <2>3. CASE pc[p] = "key"
    <3>1. Holders(p) = {keyLock[tx[p].id]} \ {None}
      BY <2>3 DEF Holders
    <3>2. keyLock[tx[p].id] \in S /\ tx[p].id \in SaleId
      BY <1>1, <2>3, <3>1 DEF Typed, Roles
    <3> DEFINE q == keyLock[tx[p].id]
    <3>3. pc[q] \in {"find", "deduct"}
      BY <3>2 DEF SellersInv, KeyHeld
    <3>4. pc[q] = "find" => Holders(q) = {}
      BY DEF Holders, Awaited
    <3> QED
      BY <1>1, <3>2, <3>3, <3>4
  <2>4. CASE pc[p] \notin {"deduct", "key"}
    <3>1. Holders(p) = {}
      BY <1>1, <2>4 DEF Holders, Awaited
    <3> QED
      BY <1>1, <3>1
  <2> QED
    BY <2>2, <2>3, <2>4
<1> DEFINE T == {Lowest(p) : p \in D}
<1>4. PICK x \in T : \A y \in T : y <= x
  <2>1. T \in SUBSET Item /\ T # {}
    BY <1>2, <1>3
  <2> HIDE DEF T
  <2> QED
    BY <2>1, GreatestItem
<1>5. PICK p \in D : x = Lowest(p)
  OBVIOUS
<1> DEFINE q == rowLock[x]
<1>6. q \in S /\ q \in Seller /\ x \in Item
  BY <1>2, <1>5
<1>7. pc[q] = "deduct" /\ \A j \in tx[q].left : x < j
  BY <1>6 DEF SellersInv, RowsInOrder
<1>8. q \in D
  BY <1>6, <1>7
<1>9. Lowest(q) \in tx[q].left
  BY <1>1, <1>2, <1>6, <1>8, Quantities DEF Typed
<1>10. x < Lowest(q) /\ Lowest(q) <= x /\ Lowest(q) \in Item
  BY <1>2, <1>4, <1>7, <1>8, <1>9
<1> QED
  BY <1>6, <1>10 DEF Item

\* Locking the items in their order keeps cashiers from waiting on one another.
THEOREM SalesNeverDeadlockHolds == Spec => []SalesNeverDeadlock
BY SellersAlways, SellersGoOn, PTL

-----------------------------------------------------------------------------
(* Every sale is sold, edited and withdrawn as a whole with its stock *)

\* How far p has moved item i by now.
Delta(p, i) ==
  CASE pc[p] = "deduct" -> IF i \in tx[p].left THEN 0 ELSE -tx[p].want[i]
    [] pc[p] \in {"restore", "putback"} -> IF i \in tx[p].left THEN 0 ELSE tx[p].old[i]
    [] pc[p] \in {"look", "issue"} ->
         tx[p].old[i] - (IF i \in tx[p].left THEN 0 ELSE tx[p].want[i])
    [] OTHER -> 0

RowsMoved(p) == \A i \in Item : Seen(p, i) = stock[i] + Delta(p, i)

\* What p took from its request or read from its sale is still so.
SaleKnown(p) ==
  /\ pc[p] \in {"idle", "check", "key", "find", "recheck"} =>
       \A i \in Item : rowLock[i] # p
  /\ pc[p] \in {"check", "key", "find", "deduct"} => tx[p].want = Wanted[tx[p].id]
  /\ pc[p] \in {"key", "find"} => tx[p].left = Support(tx[p].want)
  /\ pc[p] \in {"find", "deduct"} => keyLock[tx[p].id] = p
  /\ pc[p] = "deduct" => sale[tx[p].id].status = "none"
  /\ pc[p] \in {"restore", "look", "issue"} =>
       /\ tx[p].want \in Edited
       /\ saleLock[tx[p].id] = p
       /\ Active(tx[p].id)
  /\ pc[p] = "putback" => sale[tx[p].id].status # "none"
  /\ pc[p] \in {"restore", "look", "issue", "putback"} => tx[p].old = sale[tx[p].id].items

NotSoldYet == \A s \in SaleId : sale[s].status = "none" => sale[s].items = Nothing

LedgerInv ==
  /\ NotSoldYet
  /\ \A p \in Request : RowsMoved(p) /\ SaleKnown(p)

\* A deletion reads its sale without a lock: one request at a time maintains sales.
OneMaintainer == \A m, n \in Maintainer : m = n

LEMMA LedgerInit == Init => LedgerInv
BY DEF Init, LedgerInv, NotSoldYet, RowsMoved, SaleKnown, Seen, Delta, NoSaleYet, Request

\* Only a commit changes the stock, of rows that it holds, and only its own sale.
LEMMA OnlyCommits ==
  ASSUME Typed, NEW p \in Request, Step(p)
  PROVE  \/ UNCHANGED Committed
         \/ /\ CommitRows(p)
            /\ CommitSale(p) \/ CommitEdit(p) \/ CommitDelete(p)
            /\ \A s \in SaleId : s # tx[p].id => sale'[s] = sale[s]
BY DEF Step, Advance, Submit, CheckItem, LockKey, Replay, Collide, InsertVoucher, Deduct, Refuse,
       CommitSale, Recheck, BeginEdit, Restore, BeginRebuild, Look, Issue, CommitEdit,
       BeginDelete, PutBack, CommitDelete, Fail, PassOn, Lose, Rollback, Committed,
       Typed, TypeOK

\* Another request's commit is of another sale than one that is being worked on.
LEMMA SalesApart ==
  ASSUME OneMaintainer, Typed, LedgerInv, NEW p \in Request, NEW q \in Request, q # p,
         CommitSale(p) \/ CommitEdit(p) \/ CommitDelete(p),
         pc[q] \in {"deduct", "restore", "look", "issue", "putback"}
  PROVE  tx[q].id # tx[p].id
<1>1. SaleKnown(p) /\ SaleKnown(q)
  BY DEF LedgerInv
<1>2. CASE CommitSale(p)
  BY <1>1, <1>2 DEF CommitSale, SaleKnown, Active
<1>3. CASE CommitEdit(p) \/ CommitDelete(p)
  <2>1. pc[p] \in {"look", "putback"} /\ p \in Maintainer
    BY <1>3 DEF CommitEdit, CommitDelete, Typed, Roles
  <2>2. q \notin Maintainer
    BY <2>1 DEF OneMaintainer
  <2>3. pc[q] = "deduct"
    BY <2>2 DEF Typed, Roles
  <2> QED
    BY <1>1, <2>1, <2>3 DEF SaleKnown, Active
<1> QED
  BY <1>2, <1>3

LEMMA OthersKnown ==
  ASSUME OneMaintainer, Typed, LedgerInv, NEW p \in Request, Step(p),
         NEW q \in Request, q # p
  PROVE  RowsMoved(q)' /\ SaleKnown(q)'
<1>1. Undisturbed(q)
  BY Frame
<1>2. RowsMoved(q) /\ SaleKnown(q)
  BY DEF LedgerInv
<1>3. \A i \in Item : rowLock[i] = q => stock'[i] = stock[i]
  BY OnlyCommits DEF Committed, CommitRows, Seen
<1>4. \A i \in Item : Delta(q, i)' = Delta(q, i)
  BY <1>1 DEF Delta, Undisturbed
<1>5. RowsMoved(q)'
  <2> SUFFICES ASSUME NEW i \in Item PROVE Seen(q, i)' = stock'[i] + Delta(q, i)
    BY <1>4 DEF RowsMoved
  <2>1. CASE rowLock[i] = q
    BY <1>1, <1>2, <1>3, <2>1 DEF RowsMoved, Seen, Undisturbed
  <2>2. CASE rowLock[i] # q
    <3>1. Delta(q, i) \in Int /\ stock[i] \in Int /\ stock'[i] \in Int
      <4>1. stock' \in [Item -> Int]
        BY NextTyped DEF Next, Step, Typed, TypeOK
      <4>2. tx[q].want[i] \in Int /\ tx[q].old[i] \in Int
        BY TxOf DEF Typed, Basket
      <4> QED
        BY <4>1, <4>2 DEF Delta, Typed, TypeOK
    <3>2. stock[i] = stock[i] + Delta(q, i)
      BY <1>2, <2>2 DEF RowsMoved, Seen
    <3>3. Delta(q, i) = 0
      BY <3>1, <3>2
    <3>4. Seen(q, i)' = stock'[i]
      BY <1>1, <2>2 DEF Seen, Undisturbed
    <3> QED
      BY <3>1, <3>3, <3>4
  <2> QED
    BY <2>1, <2>2
<1>6. SaleKnown(q)'
  <2>1. pc[q] # "idle" => tx[q].id \in SaleId
    BY DEF Typed, Roles
  <2>2. pc[q] \in {"deduct", "restore", "look", "issue", "putback"} =>
          sale'[tx[q].id] = sale[tx[q].id]
    BY <2>1, OnlyCommits, SalesApart DEF Committed
  <2> QED
    BY <1>1, <1>2, <2>1, <2>2 DEF SaleKnown, Undisturbed, Active
<1> QED
  BY <1>5, <1>6

\* p has left its transaction: it holds and has moved nothing.
LEMMA OutKnown ==
  ASSUME Typed, Typed', NEW p \in Request, ReleaseLocks(p), NEW l \in {"idle", "recheck"},
         NEW t \in Tx, Goes(p, l, t)
  PROVE  RowsMoved(p)' /\ SaleKnown(p)'
<1>1. pc'[p] = l
  BY DEF Goes, Typed, TypeOK
<1>2. \A i \in Item : rowLock'[i] # p /\ stock'[i] \in Int
  BY DEF ReleaseLocks, Unlocked, Typed, TypeOK, Request
<1>3. \A i \in Item : Delta(p, i)' = 0 /\ Seen(p, i)' = stock'[i]
  BY <1>1, <1>2 DEF Delta, Seen
<1>4. RowsMoved(p)'
  BY <1>2, <1>3 DEF RowsMoved
<1>5. SaleKnown(p)'
  BY <1>1, <1>2 DEF SaleKnown
<1> QED
  BY <1>4, <1>5

\* A request that holds no row has moved nothing.
LEMMA NoneMoved ==
  ASSUME Typed', NEW p \in Request, \A i \in Item : rowLock'[i] # p /\ Delta(p, i)' = 0
  PROVE  RowsMoved(p)'
<1>1. \A i \in Item : stock'[i] \in Int
  BY DEF Typed, TypeOK
<1> QED
  BY <1>1 DEF RowsMoved, Seen

LEMMA OutsideKnown ==
  ASSUME Typed, Typed', LedgerInv, NEW p \in Request,
         Submit(p) \/ CheckItem(p) \/ LockKey(p) \/ InsertVoucher(p) \/ Recheck(p) \/ PassOn(p)
  PROVE  RowsMoved(p)' /\ SaleKnown(p)'
<1>0. SaleKnown(p) /\ TypeOK
  BY DEF LedgerInv, Typed
<1>1. (\A i \in Item : rowLock'[i] # p) /\ UNCHANGED sale
  BY <1>0 DEF Submit, CheckItem, LockKey, InsertVoucher, Recheck, PassOn, SaleKnown, Locks,
              Committed
<1>2. ASSUME NEW l \in {"idle", "check", "key", "find", "recheck"}, NEW t \in Tx, Goes(p, l, t)
      PROVE  pc'[p] = l /\ tx'[p] = t /\ RowsMoved(p)'
  <2>1. pc'[p] = l /\ tx'[p] = t
    BY <1>0, <1>2 DEF Goes, TypeOK
  <2>2. \A i \in Item : Delta(p, i)' = 0
    BY <2>1 DEF Delta
  <2> QED
    BY <1>1, <2>1, <2>2, NoneMoved
<1>3. CASE Submit(p)
  <2>1. CASE Goes(p, "idle", NoTx)
    <3>1. pc'[p] = "idle" /\ RowsMoved(p)'
      BY <1>2, <2>1, EmptyTx
    <3> QED
      BY <1>1, <3>1 DEF SaleKnown
  <2>2. ASSUME NEW s \in SaleId, NEW t \in Tx, Goes(p, "check", t), t.id = s, t.want = Wanted[s]
        PROVE  RowsMoved(p)' /\ SaleKnown(p)'
    <3>1. pc'[p] = "check" /\ tx'[p] = t /\ RowsMoved(p)'
      BY <1>2, <2>2
    <3> QED
      BY <1>1, <2>2, <3>1 DEF SaleKnown
  <2> QED
    BY <1>3, <2>1, <2>2, SubmitEffect
<1>4. CASE CheckItem(p)
  <2>0. pc[p] = "check" /\ tx[p].want = Wanted[tx[p].id]
    BY <1>0, <1>4 DEF CheckItem, SaleKnown
  <2>1. ASSUME NEW t \in Tx, Goes(p, "recheck", t)
        PROVE  RowsMoved(p)' /\ SaleKnown(p)'
    <3>1. pc'[p] = "recheck" /\ RowsMoved(p)'
      BY <1>2, <2>1
    <3> QED
      BY <1>1, <3>1 DEF SaleKnown
  <2>2. ASSUME NEW t \in Tx, NEW l \in {"check", "key"}, Goes(p, l, t),
               t.id = tx[p].id, t.want = tx[p].want, l = "key" => t.left = Support(t.want)
        PROVE  RowsMoved(p)' /\ SaleKnown(p)'
    <3>1. pc'[p] = l /\ tx'[p] = t /\ RowsMoved(p)'
      BY <1>2, <2>2
    <3>2. l = "key" => tx'[p].left = Support(tx[p].want)
      BY <2>2, <3>1
    <3>3. Support(tx[p].want) = Support(tx'[p].want)
      BY <2>2, <3>1
    <3> QED
      BY <1>1, <2>0, <2>2, <3>1, <3>2, <3>3 DEF SaleKnown
  <2> QED
    BY <1>4, <2>1, <2>2, CheckItemEffect
<1>5. CASE LockKey(p)
  <2>1. Goes(p, "find", tx[p]) /\ tx[p] \in Tx
    BY <1>0, <1>5, PcEffect DEF LockKey
  <2>2. pc'[p] = "find" /\ tx'[p] = tx[p] /\ RowsMoved(p)'
    BY <1>2, <2>1
  <2>3. keyLock'[tx[p].id] = p
    BY <1>5 DEF LockKey, Typed, TypeOK, Roles
  <2>4. tx[p].want = Wanted[tx[p].id] /\ tx[p].left = Support(tx[p].want)
    BY <1>0, <1>5 DEF LockKey, SaleKnown
  <2> QED
    BY <1>1, <2>2, <2>3, <2>4 DEF SaleKnown
<1>6. CASE InsertVoucher(p)
  <2>1. /\ pc'[p] = "deduct" /\ UNCHANGED <<Committed, Locks, tx>>
        /\ sale[tx[p].id].status = "none"
        /\ tx[p].left = Support(tx[p].want) /\ tx[p].want = Wanted[tx[p].id]
        /\ keyLock[tx[p].id] = p
    BY <1>0, <1>6 DEF InsertVoucher, Goto, SaleKnown, TypeOK
  <2>2. \A i \in Item : tx[p].want[i] \in Nat
    BY <1>0, TxOf DEF Basket
  <2>3. \A i \in Item : Delta(p, i)' = 0
    BY <2>1, <2>2 DEF Delta, Support
  <2>4. RowsMoved(p)'
    BY <1>1, <2>3, NoneMoved
  <2> QED
    BY <2>1, <2>4 DEF SaleKnown, Committed, Locks
<1>7. CASE Recheck(p) \/ PassOn(p)
  <2>1. Goes(p, "idle", NoTx)
    BY <1>7 DEF Recheck, PassOn, Finish, Goto, Goes
  <2>2. pc'[p] = "idle" /\ RowsMoved(p)'
    BY <1>2, <2>1, EmptyTx
  <2> QED
    BY <1>1, <2>2 DEF SaleKnown
<1> QED
  BY <1>3, <1>4, <1>5, <1>6, <1>7

LEMMA BeginKnown ==
  ASSUME Typed, Typed', LedgerInv, NEW p \in Request, BeginEdit(p) \/ BeginDelete(p)
  PROVE  RowsMoved(p)' /\ SaleKnown(p)'
<1>0. SaleKnown(p) /\ TypeOK
  BY DEF LedgerInv, Typed
<1>1. (\A i \in Item : rowLock'[i] # p) /\ UNCHANGED sale
  BY <1>0 DEF BeginEdit, BeginDelete, SaleKnown, Locks, Committed
<1>2. ASSUME NEW l \in {"restore", "putback"}, NEW t \in Tx, Goes(p, l, t), t.left = Support(t.old)
      PROVE  pc'[p] = l /\ tx'[p] = t /\ RowsMoved(p)'
  <2>1. pc'[p] = l /\ tx'[p] = t
    BY <1>0, <1>2 DEF Goes, TypeOK
  <2>2. \A i \in Item : t.old[i] \in Nat
    BY DEF Tx, Basket
  <2>3. \A i \in Item : Delta(p, i)' = 0
    BY <1>2, <2>1, <2>2 DEF Delta, Support
  <2> QED
    BY <1>1, <2>1, <2>3, NoneMoved
<1>3. CASE BeginEdit(p)
  <2>1. PICK s \in SaleId, t \in Tx :
           /\ Goes(p, "restore", t)
           /\ t.id = s /\ t.want \in Edited /\ t.old = sale[s].items
           /\ t.left = Support(t.old)
           /\ saleLock[s] = None /\ Active(s)
           /\ saleLock' = [saleLock EXCEPT ![s] = p]
    BY <1>3, BeginEditEffect
  <2>2. pc'[p] = "restore" /\ tx'[p] = t /\ RowsMoved(p)'
    BY <1>2, <2>1
  <2>3. saleLock'[s] = p
    BY <1>0, <2>1 DEF TypeOK
  <2> QED
    BY <1>1, <2>1, <2>2, <2>3 DEF SaleKnown, Active
<1>4. CASE BeginDelete(p)
  <2>1. PICK s \in SaleId, t \in Tx :
           /\ Goes(p, "putback", t)
           /\ t.id = s /\ t.old = sale[s].items /\ t.left = Support(t.old)
           /\ sale[s].status # "none"
    BY <1>4, BeginDeleteEffect
  <2>2. pc'[p] = "putback" /\ tx'[p] = t /\ RowsMoved(p)'
    BY <1>2, <2>1
  <2> QED
    BY <1>1, <2>1, <2>2 DEF SaleKnown
<1> QED
  BY <1>3, <1>4

LEMMA MoveMoved ==
  ASSUME Typed, Typed', LedgerInv, NEW p \in Request, NEW i \in Item, NEW d \in Int,
         Move(p, i, d),
         \A j \in Item : Delta(p, j)' = IF j = i THEN Delta(p, i) + d ELSE Delta(p, j),
         UNCHANGED stock
  PROVE  RowsMoved(p)'
<1>1. tx'[p] = Moved(p, i, d) /\ rowLock' = [rowLock EXCEPT ![i] = p]
  BY DEF Move, Typed, TypeOK
<1>2. \A j \in Item : tx'[p].row[j] = IF j = i THEN Seen(p, i) + d ELSE tx[p].row[j]
  BY <1>1, MovedVars DEF Typed
<1>3. \A j \in Item : Seen(p, j)' = IF j = i THEN Seen(p, i) + d ELSE Seen(p, j)
  BY <1>1, <1>2 DEF Seen, Typed, TypeOK
<1>4. \A j \in Item : Delta(p, j) \in Int
  <2>1. tx[p].want \in Basket /\ tx[p].old \in Basket
    BY TxOf DEF Typed
  <2> QED
    BY <2>1 DEF Delta, Basket
<1>5. RowsMoved(p) /\ stock \in [Item -> Int]
  BY DEF LedgerInv, Typed, TypeOK
<1> QED
  BY <1>3, <1>4, <1>5 DEF RowsMoved

LEMMA MovesKnown ==
  ASSUME Typed, Typed', LedgerInv, NEW p \in Request,
         Deduct(p) \/ Restore(p) \/ Issue(p) \/ PutBack(p)
  PROVE  RowsMoved(p)' /\ SaleKnown(p)'
<1>0. /\ SaleKnown(p) /\ TypeOK
      /\ \A i \in Item : tx[p].want[i] \in Nat /\ tx[p].old[i] \in Nat
  BY TxOf DEF LedgerInv, Typed, Basket
<1>1. UNCHANGED <<stock, sale, keyLock, saleLock>>
  BY DEF Deduct, Restore, Issue, PutBack, Committed
<1>2. ASSUME NEW i \in Item, NEW d \in Int, Move(p, i, d)
      PROVE  /\ tx'[p].id = tx[p].id /\ tx'[p].want = tx[p].want /\ tx'[p].old = tx[p].old
             /\ tx'[p].left = tx[p].left \ {i}
  <2>1. tx'[p] = Moved(p, i, d)
    BY <1>2 DEF Move, Typed, TypeOK
  <2> QED
    BY <2>1, MovedVars DEF Typed
<1>3. CASE Deduct(p)
  <2> DEFINE i == Lowest(p)
             d == -tx[p].want[i]
  <2>1. pc[p] = "deduct" /\ tx[p].left # {} /\ pc'[p] = "deduct" /\ Move(p, i, d)
    BY <1>3 DEF Deduct
  <2>2. i \in Item /\ i \in tx[p].left /\ d \in Int /\ d = -tx[p].want[i]
    BY <2>1, Quantities DEF Typed
  <2> HIDE DEF i, d
  <2>3. \A j \in Item : Delta(p, j)' = IF j = i THEN Delta(p, i) + d ELSE Delta(p, j)
    BY <1>0, <1>2, <2>1, <2>2 DEF Delta
  <2>4. RowsMoved(p)'
    BY <1>1, <2>1, <2>2, <2>3, MoveMoved
  <2>5. SaleKnown(p)'
    BY <1>0, <1>1, <1>2, <2>1, <2>2 DEF SaleKnown
  <2> QED
    BY <2>4, <2>5
<1>4. CASE Restore(p)
  <2> DEFINE i == Lowest(p)
             d == tx[p].old[i]
  <2>1. pc[p] = "restore" /\ tx[p].left # {} /\ pc'[p] = "restore" /\ Move(p, i, d)
    BY <1>4 DEF Restore
  <2>2. i \in Item /\ i \in tx[p].left /\ d \in Int /\ d = tx[p].old[i]
    BY <2>1, Quantities DEF Typed
  <2> HIDE DEF i, d
  <2>3. \A j \in Item : Delta(p, j)' = IF j = i THEN Delta(p, i) + d ELSE Delta(p, j)
    BY <1>0, <1>2, <2>1, <2>2 DEF Delta
  <2>4. RowsMoved(p)'
    BY <1>1, <2>1, <2>2, <2>3, MoveMoved
  <2>5. SaleKnown(p)'
    BY <1>0, <1>1, <1>2, <2>1, <2>2 DEF SaleKnown, Active
  <2> QED
    BY <2>4, <2>5
<1>5. CASE Issue(p)
  <2> DEFINE i == Lowest(p)
             d == -tx[p].want[i]
  <2>1. pc[p] = "issue" /\ tx[p].left # {} /\ pc'[p] = "look" /\ Move(p, i, d)
    BY <1>5 DEF Issue, Goto, Typed, TypeOK, Wanting
  <2>2. i \in Item /\ i \in tx[p].left /\ d \in Int /\ d = -tx[p].want[i]
    BY <2>1, Quantities DEF Typed
  <2> HIDE DEF i, d
  <2>3. \A j \in Item : Delta(p, j)' = IF j = i THEN Delta(p, i) + d ELSE Delta(p, j)
    BY <1>0, <1>2, <2>1, <2>2 DEF Delta
  <2>4. RowsMoved(p)'
    BY <1>1, <2>1, <2>2, <2>3, MoveMoved
  <2>5. SaleKnown(p)'
    BY <1>0, <1>1, <1>2, <2>1, <2>2 DEF SaleKnown, Active
  <2> QED
    BY <2>4, <2>5
<1>6. CASE PutBack(p)
  <2>1. PICK i \in tx[p].left : Move(p, i, tx[p].old[i])
    BY <1>6 DEF PutBack
  <2> DEFINE d == tx[p].old[i]
  <2>2. pc[p] = "putback" /\ pc'[p] = "putback" /\ Move(p, i, d)
    BY <1>6, <2>1 DEF PutBack
  <2>3. i \in Item /\ i \in tx[p].left /\ d \in Int /\ d = tx[p].old[i]
    BY Quantities DEF Typed
  <2> HIDE DEF d
  <2>4. \A j \in Item : Delta(p, j)' = IF j = i THEN Delta(p, i) + d ELSE Delta(p, j)
    BY <1>0, <1>2, <2>2, <2>3 DEF Delta
  <2>5. RowsMoved(p)'
    BY <1>1, <2>2, <2>3, <2>4, MoveMoved
  <2>6. SaleKnown(p)'
    BY <1>0, <1>1, <1>2, <2>2, <2>3 DEF SaleKnown
  <2> QED
    BY <2>5, <2>6
<1> QED
  BY <1>3, <1>4, <1>5, <1>6

LEMMA RebuildKnown ==
  ASSUME Typed, Typed', LedgerInv, NEW p \in Request,
         BeginRebuild(p) \/ (Look(p) /\ ~Refused(p, Lowest(p)))
  PROVE  RowsMoved(p)' /\ SaleKnown(p)'
<1>0. SaleKnown(p) /\ RowsMoved(p) /\ TypeOK
  BY DEF LedgerInv, Typed
<1>1. UNCHANGED <<Committed, Locks>>
  BY DEF BeginRebuild, Look
<1>2. /\ tx'[p].id = tx[p].id /\ tx'[p].want = tx[p].want /\ tx'[p].old = tx[p].old
      /\ tx'[p].row = tx[p].row
      /\ \A i \in Item : Delta(p, i)' = Delta(p, i)
      /\ pc[p] \in {"restore", "look"} /\ pc'[p] \in {"look", "issue"}
  <2>1. CASE BeginRebuild(p)
    <3>1. PICK t \in Tx :
           /\ Goes(p, "look", t)
           /\ t.id = tx[p].id /\ t.want = tx[p].want /\ t.old = tx[p].old
           /\ t.row = tx[p].row /\ t.left = Support(t.want)
      BY <2>1, BeginRebuildEffect
    <3>2. pc'[p] = "look" /\ tx'[p] = t /\ pc[p] = "restore" /\ tx[p].left = {}
      BY <1>0, <2>1, <3>1 DEF Goes, BeginRebuild, TypeOK
    <3>3. \A i \in Item : t.want[i] \in Nat /\ t.old[i] \in Nat
      BY DEF Tx, Basket
    <3>4. \A i \in Item : Delta(p, i)' = Delta(p, i)
      BY <3>1, <3>2, <3>3 DEF Delta, Support
    <3> QED
      BY <3>1, <3>2, <3>4
  <2>2. CASE Look(p) /\ ~Refused(p, Lowest(p))
    <3>1. pc[p] = "look" /\ pc'[p] = "issue" /\ UNCHANGED tx
      BY <1>0, <2>2 DEF Look, Goto, TypeOK
    <3> QED
      BY <3>1 DEF Delta
  <2> QED
    BY <2>1, <2>2
<1>3. RowsMoved(p)'
  BY <1>0, <1>1, <1>2 DEF RowsMoved, Seen, Committed, Locks
<1>4. SaleKnown(p)'
  BY <1>0, <1>1, <1>2 DEF SaleKnown, Active, Committed, Locks
<1> QED
  BY <1>3, <1>4

LEMMA EndKnown ==
  ASSUME Typed, Typed', LedgerInv, NEW p \in Request,
         Replay(p) \/ Collide(p) \/ Refuse(p) \/ CommitSale(p) \/ CommitEdit(p) \/ CommitDelete(p)
           \/ (Look(p) /\ Refused(p, Lowest(p))) \/ Fail(p) \/ Lose(p)
  PROVE  RowsMoved(p)' /\ SaleKnown(p)'
<1>1. ReleaseLocks(p) /\ pc[p] # "idle"
  BY DEF Replay, Collide, Refuse, CommitSale, CommitEdit, CommitDelete, Look, Fail, Lose,
         Rollback, CommitRows
<1>2. ASSUME NEW a, Finish(p, a)
      PROVE  RowsMoved(p)' /\ SaleKnown(p)'
  BY <1>1, <1>2, EmptyTx, OutKnown DEF Finish, Goto, Goes
<1>3. ASSUME NEW w \in BOOLEAN, Recheckable(p, w)
      PROVE  RowsMoved(p)' /\ SaleKnown(p)'
  BY <1>1, <1>3, RecheckableEffect, OutKnown
<1> QED
  BY <1>2, <1>3 DEF Replay, Collide, Refuse, CommitSale, CommitEdit, CommitDelete, Look, Fail, Lose

LEMMA OwnKnown ==
  ASSUME Typed, Typed', LedgerInv, NEW p \in Request, Step(p)
  PROVE  RowsMoved(p)' /\ SaleKnown(p)'
BY OutsideKnown, BeginKnown, MovesKnown, RebuildKnown, EndKnown DEF Step, Advance

LEMMA NotSoldYetKept ==
  ASSUME Typed, LedgerInv, NEW p \in Request, Step(p)
  PROVE  NotSoldYet'
<1>1. CASE UNCHANGED Committed
  BY <1>1 DEF LedgerInv, NotSoldYet, Committed
<1>2. CASE CommitSale(p) \/ CommitEdit(p) \/ CommitDelete(p)
  <2>0. tx[p].id \in SaleId
    BY <1>2 DEF CommitSale, CommitEdit, CommitDelete, Typed, Roles
  <2>1. sale'[tx[p].id].status # "none"
    <3>1. CASE CommitSale(p)
      BY <2>0, <3>1 DEF CommitSale, Typed, TypeOK
    <3>2. CASE CommitEdit(p)
      <4>1. sale'[tx[p].id].status = sale[tx[p].id].status
        BY <2>0, <3>2 DEF CommitEdit, Typed, TypeOK
      <4>2. Active(tx[p].id)
        BY <3>2 DEF CommitEdit, LedgerInv, SaleKnown
      <4> QED
        BY <4>1, <4>2 DEF Active
    <3>3. CASE CommitDelete(p)
      BY <2>0, <3>3 DEF CommitDelete, Typed, TypeOK
    <3> QED
      BY <1>2, <3>1, <3>2, <3>3
  <2>2. \A s \in SaleId : s # tx[p].id => sale'[s] = sale[s]
    BY OnlyCommits DEF Committed
  <2> QED
    BY <2>1, <2>2 DEF LedgerInv, NotSoldYet
<1> QED
  BY <1>1, <1>2, OnlyCommits

LEMMA LedgerStep ==
  ASSUME OneMaintainer
  PROVE  Typed /\ LedgerInv /\ [Next]_vars => LedgerInv'
<1> SUFFICES ASSUME Typed, LedgerInv, [Next]_vars PROVE LedgerInv'
  OBVIOUS
<1>1. CASE UNCHANGED vars
  BY <1>1 DEF vars, LedgerInv, NotSoldYet, RowsMoved, SaleKnown, Seen, Delta, Active
<1>2. CASE Next
  <2> PICK p \in Request : Step(p)
    BY <1>2 DEF Next, Step
  <2>1. Typed'
    BY <1>2, NextTyped
  <2>2. \A q \in Request : RowsMoved(q)' /\ SaleKnown(q)'
    BY <2>1, OwnKnown, OthersKnown
  <2> QED
    BY <2>2, NotSoldYetKept DEF LedgerInv
<1> QED
  BY <1>1, <1>2

LEMMA LedgerAlways ==
  ASSUME OneMaintainer
  PROVE  Spec => [](Typed /\ LedgerInv)
BY TypedInit, NextTyped, LedgerInit, LedgerStep, PTL DEF Spec

\* What each commit is to the ledger.
LEMMA CommitIsLedgerStep ==
  ASSUME Typed, LedgerInv, NEW p \in Request,
         CommitSale(p) \/ CommitEdit(p) \/ CommitDelete(p)
  PROVE  \E s \in SaleId : Ledger!Sell(s) \/ Ledger!Amend(s) \/ Ledger!Withdraw(s)
<1> DEFINE s == tx[p].id
<1>0. /\ s \in SaleId /\ SaleKnown(p) /\ CommitRows(p) /\ tx[p].left = {}
      /\ sale \in [SaleId -> SaleType] /\ stock \in [Item -> Int]
      /\ tx[p].want \in Basket /\ tx[p].old \in Basket
  BY TxOf DEF CommitSale, CommitEdit, CommitDelete, Typed, Roles, TypeOK, LedgerInv, SaleType
<1>1. stock' = [i \in Item |-> stock[i] + Delta(p, i)]
  BY <1>0 DEF CommitRows, LedgerInv, RowsMoved
<1>2. CASE CommitSale(p)
  <2>1. pc[p] = "deduct" /\ sale' = [sale EXCEPT ![s] = [status |-> "active", items |-> tx[p].want]]
    BY <1>2 DEF CommitSale
  <2>2. sale[s].status = "none" /\ sale[s].items = Nothing /\ tx[p].want = Wanted[s]
    BY <1>0, <2>1 DEF SaleKnown, LedgerInv, NotSoldYet
  <2>3. \A i \in Item : stock[i] + Delta(p, i) = stock[i] + sale[s].items[i] - Wanted[s][i]
    <3> TAKE i \in Item
    <3>1. Delta(p, i) = -tx[p].want[i] /\ sale[s].items[i] = 0
      BY <1>0, <2>1, <2>2 DEF Delta, Nothing
    <3>2. stock[i] \in Int /\ tx[p].want[i] \in Nat
      BY <1>0 DEF Basket
    <3> QED
      BY <2>2, <3>1, <3>2
  <2>4. stock' = [i \in Item |-> stock[i] + sale[s].items[i] - Wanted[s][i]]
    BY <1>1, <2>3
  <2>5. Ledger!Become(s, "active", Wanted[s])
    BY <2>1, <2>2, <2>4 DEF Ledger!Become
  <2> QED
    BY <1>0, <2>2, <2>5 DEF Ledger!Sell
<1>3. CASE CommitEdit(p)
  <2>1. pc[p] = "look" /\ sale' = [sale EXCEPT ![s].items = tx[p].want]
    BY <1>3 DEF CommitEdit
  <2>2. sale[s].status = "active" /\ sale[s].items = tx[p].old /\ tx[p].want \in Edited
    BY <1>0, <2>1 DEF SaleKnown, Active
  <2>3. \A i \in Item : stock[i] + Delta(p, i) = stock[i] + sale[s].items[i] - tx[p].want[i]
    <3> TAKE i \in Item
    <3>1. Delta(p, i) = tx[p].old[i] - tx[p].want[i]
      BY <1>0, <2>1 DEF Delta
    <3>2. stock[i] \in Int /\ tx[p].want[i] \in Nat /\ tx[p].old[i] \in Nat
      BY <1>0 DEF Basket
    <3> QED
      BY <2>2, <3>1, <3>2
  <2>4. stock' = [i \in Item |-> stock[i] + sale[s].items[i] - tx[p].want[i]]
    BY <1>1, <2>3
  <2>5. sale' = [sale EXCEPT ![s] = [status |-> "active", items |-> tx[p].want]]
    <3>1. [sale[s] EXCEPT !.items = tx[p].want] = [status |-> "active", items |-> tx[p].want]
      BY <1>0, <2>2 DEF SaleType
    <3> QED
      BY <2>1, <3>1
  <2>6. Ledger!Become(s, "active", tx[p].want)
    BY <2>4, <2>5 DEF Ledger!Become
  <2> QED
    BY <1>0, <2>2, <2>6 DEF Ledger!Amend
<1>4. CASE CommitDelete(p)
  <2>1. PICK rest \in {Nothing} \cup ({sale[s].items} \ {tx[p].old}) :
          sale' = [sale EXCEPT ![s] = [status |-> "deleted", items |-> rest]]
    BY <1>4 DEF CommitDelete
  <2>2. pc[p] = "putback" /\ sale[s].status # "none" /\ sale[s].items = tx[p].old
    BY <1>0, <1>4 DEF CommitDelete, SaleKnown
  <2>3. sale' = [sale EXCEPT ![s] = [status |-> "deleted", items |-> [i \in Item |-> 0]]]
    BY <2>1, <2>2 DEF Nothing
  <2> DEFINE z == [i \in Item |-> 0]
  <2>4. \A i \in Item : stock[i] + Delta(p, i) = stock[i] + sale[s].items[i] - z[i]
    <3> TAKE i \in Item
    <3>1. Delta(p, i) = tx[p].old[i] /\ z[i] = 0
      BY <1>0, <2>2 DEF Delta
    <3>2. stock[i] \in Int /\ tx[p].old[i] \in Nat
      BY <1>0 DEF Basket
    <3> QED
      BY <2>2, <3>1, <3>2
  <2>5. stock' = [i \in Item |-> stock[i] + sale[s].items[i] - z[i]]
    BY <1>1, <2>4
  <2>6. Ledger!Become(s, "deleted", z)
    BY <2>3, <2>5 DEF Ledger!Become
  <2> QED
    BY <1>0, <2>2, <2>6 DEF Ledger!Withdraw
<1> QED
  BY <1>2, <1>3, <1>4

\* As long as one request at a time maintains sales, the concurrent requests are
\* steps of the ledger, or none.
THEOREM Refinement ==
  ASSUME OneMaintainer
  PROVE  Spec => ImplementsSaleLedger
<1>1. Init => Ledger!Init
  BY DEF Init, Ledger!Init, NoSaleYet, Ledger!NoSaleYet, Nothing
<1>2. Typed /\ LedgerInv /\ [Next]_vars =>
        [\E s \in SaleId : Ledger!Sell(s) \/ Ledger!Amend(s) \/ Ledger!Withdraw(s)]_<<stock, sale>>
  <2> SUFFICES ASSUME Typed, LedgerInv, [Next]_vars
               PROVE  \/ \E s \in SaleId : Ledger!Sell(s) \/ Ledger!Amend(s) \/ Ledger!Withdraw(s)
                      \/ UNCHANGED <<stock, sale>>
    OBVIOUS
  <2>1. CASE UNCHANGED vars
    BY <2>1 DEF vars
  <2>2. CASE Next
    <3> PICK p \in Request : Step(p)
      BY <2>2 DEF Next, Step
    <3> QED
      BY OnlyCommits, CommitIsLedgerStep DEF Committed
  <2> QED
    BY <2>1, <2>2
<1> QED
  BY <1>1, <1>2, LedgerAlways, PTL DEF Spec, ImplementsSaleLedger, Ledger!Spec

-----------------------------------------------------------------------------
(* The stock and the sales add up *)

\* The lemmas about sums are proved of StockArithmetic's copies of the operators.
Sums == INSTANCE StockArithmeticProofs WITH Scale <- 1

LEMMA SameSum ==
  ASSUME NEW f
  PROVE  Sums!SumFunction(f) = SumFunction(f)
BY Zenon DEF SumFunction, SumFunctionOnSet, FoldFunctionOnSet, MapThenFoldSet,
     Sums!SumFunction, Sums!SumFunctionOnSet, Sums!FoldFunctionOnSet, Sums!MapThenFoldSet

LEMMA SalesAreFinite == Sums!IsFiniteSet(SaleId)
<1>1. IsFiniteSet(SaleId)
  OBVIOUS
<1> QED
  BY <1>1, Zenon DEF IsFiniteSet, Sums!IsFiniteSet

Held(i) == [s \in SaleId |-> sale[s].items[i]]

LEMMA HeldInInt ==
  ASSUME TypeOK, NEW i \in Item
  PROVE  Held(i) \in [SaleId -> Int] /\ SumFunction(Held(i)) \in Int
<1>1. \A s \in SaleId : sale[s].items \in Basket
  BY DEF TypeOK
<1>2. \A s \in SaleId : sale[s].items[i] \in Int
  BY <1>1 DEF Basket
<1>3. Held(i) \in [SaleId -> Int]
  BY <1>2 DEF Held
<1>4. Sums!SumFunction(Held(i)) \in Int
  BY <1>3, SalesAreFinite, Sums!SumInInt
<1> QED
  BY <1>3, <1>4, SameSum

\* One sale changes, and the stock of an item by what it held and now holds.
LEMMA BecomeIsSold ==
  ASSUME TypeOK, TypeOK', StockIsSold, NEW s \in SaleId, NEW st, NEW b, Ledger!Become(s, st, b)
  PROVE  StockIsSold'
<1> SUFFICES ASSUME NEW i \in Item
             PROVE  stock'[i] = Opening[i] - SumFunction(Held(i)')
  BY DEF StockIsSold, Held
<1> DEFINE f == Held(i)
           g == Held(i)'
<1>1. sale' = [sale EXCEPT ![s] = [status |-> st, items |-> b]]
  BY DEF Ledger!Become
<1>2. DOMAIN sale = SaleId
  BY DEF TypeOK
<1>3. sale'[s].items = b /\ \A t \in SaleId \ {s} : sale'[t] = sale[t]
  BY <1>1, <1>2
<1>4. f[s] = sale[s].items[i] /\ g[s] = b[i] /\ \A t \in SaleId \ {s} : g[t] = f[t]
  BY <1>3 DEF Held
<1>5. f \in [SaleId -> Int] /\ SumFunction(f) \in Int
  BY HeldInInt
<1>6. g \in [SaleId -> Int]
  <2>1. \A t \in SaleId : sale'[t].items \in Basket
    BY DEF TypeOK
  <2>2. \A t \in SaleId : sale'[t].items[i] \in Int
    BY <2>1 DEF Basket
  <2> QED
    BY <2>2 DEF Held
<1>7. stock'[i] = stock[i] + sale[s].items[i] - b[i]
  BY DEF Ledger!Become
<1>8. stock[i] = Opening[i] - SumFunction(f)
  BY DEF StockIsSold, Held
<1>9. Opening[i] \in Int
  OBVIOUS
<1>10. f[s] \in Int /\ g[s] \in Int
  BY <1>5, <1>6
<1> HIDE DEF f, g
<1>11. Sums!SumFunction(g) = Sums!SumFunction(f) - f[s] + g[s]
  BY <1>4, <1>5, <1>6, SalesAreFinite, Sums!SumChanges
<1>12. SumFunction(g) = SumFunction(f) - f[s] + g[s]
  BY <1>11, SameSum
<1>13. stock'[i] = Opening[i] - SumFunction(f) + f[s] - g[s]
  BY <1>4, <1>7, <1>8
<1>14. stock'[i] = Opening[i] - SumFunction(g)
  BY <1>5, <1>9, <1>10, <1>12, <1>13
<1> QED
  BY <1>14 DEF g

LEMMA SoldInitially == Init => StockIsSold
<1> SUFFICES ASSUME Init, NEW i \in Item
             PROVE  stock[i] = Opening[i] - SumFunction(Held(i))
  BY DEF StockIsSold, Held
<1>1. Held(i) = [s \in SaleId |-> 0]
  BY DEF Init, NoSaleYet, Nothing, Held
<1>2. Sums!SumFunction([s \in SaleId |-> 0]) = 0
  BY SalesAreFinite, Sums!SumOfZeros
<1>3. SumFunction(Held(i)) = 0
  BY <1>1, <1>2, SameSum
<1>4. stock[i] = Opening[i] /\ Opening[i] \in Int
  BY DEF Init
<1> QED
  BY <1>3, <1>4

\* As long as one request at a time maintains sales, what is missing from the
\* stock is what the stored sales hold, whatever sells and fails besides.
THEOREM StockIsSoldHolds ==
  ASSUME OneMaintainer
  PROVE  Spec => []StockIsSold
<1>1. Typed /\ LedgerInv /\ Typed' /\ StockIsSold /\ [Next]_vars => StockIsSold'
  <2> SUFFICES ASSUME Typed, LedgerInv, Typed', StockIsSold, [Next]_vars
               PROVE  StockIsSold'
    OBVIOUS
  <2>1. CASE UNCHANGED <<stock, sale>>
    BY <2>1 DEF StockIsSold
  <2>2. CASE Next
    <3> PICK p \in Request : Step(p)
      BY <2>2 DEF Next, Step
    <3>1. CASE UNCHANGED Committed
      BY <2>1, <3>1 DEF Committed
    <3>2. CASE CommitSale(p) \/ CommitEdit(p) \/ CommitDelete(p)
      <4>1. \E s \in SaleId : \E st, b : Ledger!Become(s, st, b)
        BY <3>2, CommitIsLedgerStep DEF Ledger!Sell, Ledger!Amend, Ledger!Withdraw
      <4> QED
        BY <4>1, BecomeIsSold DEF Typed
    <3> QED
      BY <3>1, <3>2, OnlyCommits
  <2> QED
    BY <2>1, <2>2 DEF vars
<1> QED
  BY <1>1, SoldInitially, LedgerAlways, PTL DEF Spec

-----------------------------------------------------------------------------
(* Who has no permission does not oversell *)

\* What an edit has taken back it holds until the end.
Regained(p) ==
  \A i \in Item :
    pc[p] \in {"restore", "look", "issue"} /\ tx[p].old[i] > 0 =>
      rowLock[i] = p \/ (pc[p] = "restore" /\ i \in tx[p].left)

\* A row that p has put back is no lower than it was; nor is one that p has
\* issued from again, or else it is not below zero, if p held it when it looked.
NotLowered(p) ==
  \A i \in Item :
    rowLock[i] = p =>
      /\ pc[p] \in MaintainerAt
      /\ pc[p] \in {"restore", "putback"} => tx[p].row[i] >= stock[i]
      /\ pc[p] \in {"look", "issue"} /\ tx[p].old[i] > 0 /\ p \notin Privileged =>
           tx[p].row[i] >= stock[i] \/ tx[p].row[i] >= 0

\* p is about to issue what it has seen there, if it holds the row.
HasLooked(p) ==
  pc[p] = "issue" /\ tx[p].old[Lowest(p)] > 0 /\ p \notin Privileged =>
    tx[p].row[Lowest(p)] >= tx[p].want[Lowest(p)]

Covered(p) == Regained(p) /\ NotLowered(p) /\ HasLooked(p)

MaintainersInv == \A p \in Maintainer : Covered(p)

LEMMA MaintainersInit == Init => MaintainersInv
BY DEF Init, MaintainersInv, Covered, Regained, NotLowered, HasLooked, Request

LEMMA MaintainersUndisturbed ==
  ASSUME Typed, MaintainersInv, NEW p \in Request, Step(p),
         NEW q \in Maintainer, q # p
  PROVE  Covered(q)'
<1>1. Undisturbed(q) /\ Covered(q)
  BY Frame DEF Request, MaintainersInv
<1>2. \A i \in Item : rowLock[i] = q => stock'[i] = stock[i]
  BY OnlyCommits DEF Committed, CommitRows, Seen
<1>3. Lowest(q)' = Lowest(q)
  BY <1>1 DEF Lowest, Undisturbed
<1>4. Regained(q)' /\ HasLooked(q)'
  BY <1>1, <1>3 DEF Covered, Regained, HasLooked, Undisturbed
<1>5. NotLowered(q)'
  BY <1>1, <1>2 DEF Covered, NotLowered, Undisturbed
<1> QED
  BY <1>4, <1>5 DEF Covered

\* A request that holds no row, and is not in an edit that has begun to rebuild.
LEMMA NothingCovered ==
  ASSUME NEW p \in Request, \A i \in Item : rowLock'[i] # p,
         pc'[p] \notin {"restore", "look", "issue"}
  PROVE  Covered(p)'
BY DEF Covered, Regained, NotLowered, HasLooked

\* What p knows after it has moved item i.
LEMMA MovedTo ==
  ASSUME Typed, NEW p \in Request, NEW i \in Item, NEW q \in Int, Move(p, i, q)
  PROVE  /\ tx'[p].old = tx[p].old /\ tx'[p].want = tx[p].want
         /\ tx'[p].left = tx[p].left \ {i}
         /\ \A j \in Item : tx'[p].row[j] = IF j = i THEN Seen(p, i) + q ELSE tx[p].row[j]
         /\ \A j \in Item : rowLock'[j] = IF j = i THEN p ELSE rowLock[j]
<1>1. tx'[p] = Moved(p, i, q)
  BY DEF Move, Typed, TypeOK
<1>2. \A j \in Item : rowLock'[j] = IF j = i THEN p ELSE rowLock[j]
  BY DEF Move, Typed, TypeOK
<1> QED
  BY <1>1, <1>2, MovedVars DEF Typed

\* The row is put back on top of what it was.
LEMMA PutBackCovered ==
  ASSUME Typed, MaintainersInv, NEW p \in Maintainer, NEW i \in tx[p].left,
         Move(p, i, tx[p].old[i]), pc[p] \in {"restore", "putback"},
         pc'[p] = pc[p], UNCHANGED stock
  PROVE  Covered(p)'
<1> DEFINE o == tx[p].old
<1>1. i \in Item /\ o[i] \in Nat /\ p \in Request
  BY Quantities DEF Typed, Request
<1>2. /\ tx'[p].old = o /\ tx'[p].left = tx[p].left \ {i}
      /\ \A j \in Item : tx'[p].row[j] = IF j = i THEN Seen(p, i) + o[i] ELSE tx[p].row[j]
      /\ \A j \in Item : rowLock'[j] = IF j = i THEN p ELSE rowLock[j]
  <2>1. o[i] \in Int
    BY <1>1
  <2> QED
    BY <1>1, <2>1, MovedTo
<1>3. Regained(p) /\ NotLowered(p)
  BY DEF MaintainersInv, Covered
<1>4. Seen(p, i) \in Int /\ stock[i] \in Int /\ Seen(p, i) >= stock[i]
  <2>1. Seen(p, i) \in Int /\ stock[i] \in Int
    BY <1>1, SeenIsInt DEF Typed, TypeOK
  <2> QED
    BY <1>1, <1>3, <2>1 DEF Seen, NotLowered
<1>5. Seen(p, i) + o[i] >= stock[i]
  BY <1>1, <1>4
<1> HIDE DEF o
<1>6. NotLowered(p)'
  BY <1>1, <1>2, <1>3, <1>5 DEF NotLowered, MaintainerAt
<1>7. Regained(p)'
  BY <1>1, <1>2, <1>3 DEF Regained, o
<1>8. HasLooked(p)'
  BY DEF HasLooked
<1> QED
  BY <1>6, <1>7, <1>8 DEF Covered

\* What p issues from a row it holds from before, it has seen there.
LEMMA IssueCovered ==
  ASSUME Typed, MaintainersInv, NEW p \in Maintainer, Issue(p)
  PROVE  Covered(p)'
<1> DEFINE i == Lowest(p)
           d == -tx[p].want[i]
<1>1. /\ pc[p] = "issue" /\ pc'[p] = "look" /\ p \in Request /\ UNCHANGED stock
      /\ Move(p, i, d) /\ tx[p].left # {}
  BY DEF Issue, Goto, Request, Typed, TypeOK, Wanting, Committed
<1>2. i \in Item /\ d \in Int /\ tx[p].want[i] \in Int
  BY <1>1, Quantities DEF Typed
<1>3. /\ tx'[p].old = tx[p].old
      /\ \A j \in Item : tx'[p].row[j] = IF j = i THEN Seen(p, i) + d ELSE tx[p].row[j]
      /\ \A j \in Item : rowLock'[j] = IF j = i THEN p ELSE rowLock[j]
  <2> HIDE DEF i, d
  <2> QED
    BY <1>1, <1>2, MovedTo
<1>4. Regained(p) /\ NotLowered(p) /\ HasLooked(p)
  BY DEF MaintainersInv, Covered
<1>5. tx[p].old[i] > 0 /\ p \notin Privileged => Seen(p, i) + d >= 0
  <2> SUFFICES ASSUME tx[p].old[i] > 0, p \notin Privileged
               PROVE  Seen(p, i) + d >= 0
    OBVIOUS
  <2>1. rowLock[i] = p /\ tx[p].row[i] >= tx[p].want[i]
    BY <1>1, <1>2, <1>4 DEF Regained, HasLooked
  <2>2. Seen(p, i) \in Int /\ Seen(p, i) >= tx[p].want[i]
    BY <1>1, <1>2, <2>1, SeenIsInt DEF Seen, Typed
  <2> QED
    BY <1>2, <2>2
<1> HIDE DEF i, d
<1>6. NotLowered(p)'
  BY <1>1, <1>2, <1>3, <1>4, <1>5 DEF NotLowered, MaintainerAt
<1>7. Regained(p)'
  BY <1>1, <1>2, <1>3, <1>4 DEF Regained
<1>8. HasLooked(p)'
  BY <1>1 DEF HasLooked
<1> QED
  BY <1>6, <1>7, <1>8 DEF Covered

LEMMA RebuildCovered ==
  ASSUME Typed, MaintainersInv, NEW p \in Maintainer, BeginRebuild(p)
  PROVE  Covered(p)'
<1>1. Regained(p) /\ NotLowered(p) /\ p \in Request
  BY DEF MaintainersInv, Covered, Request
<1>2. PICK t \in Tx :
        /\ Goes(p, "look", t)
        /\ t.old = tx[p].old /\ t.row = tx[p].row
  BY <1>1, BeginRebuildEffect
<1>3. /\ pc'[p] = "look" /\ tx'[p].old = tx[p].old /\ tx'[p].row = tx[p].row
      /\ pc[p] = "restore" /\ tx[p].left = {} /\ UNCHANGED <<stock, rowLock>>
  BY <1>1, <1>2 DEF Goes, BeginRebuild, Committed, Locks, Typed, TypeOK
<1>4. Regained(p)'
  BY <1>1, <1>3 DEF Regained
<1>5. NotLowered(p)'
  BY <1>1, <1>3 DEF NotLowered, MaintainerAt
<1>6. HasLooked(p)'
  BY <1>3 DEF HasLooked
<1> QED
  BY <1>4, <1>5, <1>6 DEF Covered

LEMMA LookCovered ==
  ASSUME Typed, MaintainersInv, NEW p \in Maintainer, Look(p), ~Refused(p, Lowest(p))
  PROVE  Covered(p)'
<1>1. Regained(p) /\ NotLowered(p) /\ p \in Request
  BY DEF MaintainersInv, Covered, Request
<1>2. /\ pc'[p] = "issue" /\ pc[p] = "look" /\ tx[p].left # {}
      /\ UNCHANGED <<stock, rowLock, tx>>
  BY <1>1 DEF Look, Goto, Committed, Locks, Typed, TypeOK
<1>3. Lowest(p) \in Item /\ Lowest(p)' = Lowest(p) /\ tx[p].want[Lowest(p)] \in Int
  BY <1>1, <1>2, Quantities DEF Lowest, Typed
<1>4. HasLooked(p)'
  <2> SUFFICES ASSUME tx[p].old[Lowest(p)] > 0, p \notin Privileged
               PROVE  tx[p].row[Lowest(p)] >= tx[p].want[Lowest(p)]
    BY <1>2, <1>3 DEF HasLooked
  <2>1. Seen(p, Lowest(p)) = tx[p].row[Lowest(p)]
    BY <1>1, <1>2, <1>3 DEF Regained, Seen
  <2>2. Seen(p, Lowest(p)) \in Int
    BY <1>1, <1>3, SeenIsInt DEF Typed
  <2> QED
    BY <1>3, <2>1, <2>2 DEF Refused
<1>5. Regained(p)'
  BY <1>1, <1>2 DEF Regained
<1>6. NotLowered(p)'
  BY <1>1, <1>2 DEF NotLowered, MaintainerAt
<1> QED
  BY <1>4, <1>5, <1>6 DEF Covered

LEMMA BeginCovered ==
  ASSUME Typed, MaintainersInv, NEW p \in Maintainer, BeginEdit(p) \/ BeginDelete(p)
  PROVE  Covered(p)'
<1>1. p \in Request /\ NotLowered(p)
  BY DEF MaintainersInv, Covered, Request
<1>2. \A i \in Item : rowLock'[i] # p
  BY <1>1 DEF BeginEdit, BeginDelete, Locks, NotLowered, MaintainerAt
<1>3. CASE BeginEdit(p)
  <2>1. PICK t \in Tx : Goes(p, "restore", t) /\ t.left = Support(t.old)
    BY <1>1, <1>3, BeginEditEffect
  <2>2. pc'[p] = "restore" /\ tx'[p].left = Support(tx'[p].old)
    <3>1. pc'[p] = "restore" /\ tx'[p] = t
      BY <1>1, <2>1 DEF Goes, Typed, TypeOK
    <3> QED
      BY <2>1, <3>1
  <2>3. Regained(p)'
    BY <2>2 DEF Regained, Support
  <2>4. NotLowered(p)' /\ HasLooked(p)'
    BY <1>2, <2>2 DEF NotLowered, HasLooked
  <2> QED
    BY <2>3, <2>4 DEF Covered
<1>4. CASE BeginDelete(p)
  <2>1. pc'[p] = "putback"
    BY <1>1, <1>4 DEF BeginDelete, Goto, Typed, TypeOK
  <2> QED
    BY <1>1, <1>2, <2>1, NothingCovered
<1> QED
  BY <1>3, <1>4

LEMMA MaintainersStep == Typed /\ MaintainersInv /\ [Next]_vars => MaintainersInv'
<1> SUFFICES ASSUME Typed, MaintainersInv, [Next]_vars PROVE MaintainersInv'
  OBVIOUS
<1>1. CASE UNCHANGED vars
  BY <1>1 DEF vars, MaintainersInv, Covered, Regained, NotLowered, HasLooked, Lowest
<1>2. CASE Next
  <2> PICK p \in Request : Step(p)
    BY <1>2 DEF Next, Step
  <2> SUFFICES ASSUME p \in Maintainer PROVE Covered(p)'
    BY MaintainersUndisturbed DEF MaintainersInv
  <2>0. pc[p] \in {"idle"} \cup MaintainerAt
    BY DEF Typed, TypeOK, Roles, MaintainerAt
  <2>1. CASE Restore(p)
    <3>1. /\ tx[p].left # {} /\ pc[p] = "restore" /\ UNCHANGED <<Committed, pc>>
          /\ Move(p, Lowest(p), tx[p].old[Lowest(p)])
      BY <2>1 DEF Restore
    <3>2. Lowest(p) \in tx[p].left
      BY <3>1, Quantities DEF Typed
    <3> QED
      BY <3>1, <3>2, PutBackCovered DEF Committed
  <2>2. CASE PutBack(p)
    <3>1. PICK i \in tx[p].left : Move(p, i, tx[p].old[i])
      BY <2>2 DEF PutBack
    <3> QED
      BY <2>2, <3>1, PutBackCovered DEF PutBack, Committed
  <2>3. CASE BeginRebuild(p)
    BY <2>3, RebuildCovered
  <2>4. CASE Look(p) /\ ~Refused(p, Lowest(p))
    BY <2>4, LookCovered
  <2>5. CASE Issue(p)
    BY <2>5, IssueCovered
  <2>6. CASE BeginEdit(p) \/ BeginDelete(p)
    BY <2>6, BeginCovered
  <2>7. ASSUME ReleaseLocks(p), NEW a, Finish(p, a)
        PROVE  Covered(p)'
    <3>1. \A i \in Item : rowLock'[i] # p
      BY <2>7 DEF ReleaseLocks, Unlocked, Typed, TypeOK
    <3>2. pc'[p] = "idle"
      BY <2>7 DEF Finish, Goto, Typed, TypeOK
    <3> QED
      BY <3>1, <3>2, NothingCovered
  <2>8. CASE \/ Look(p) /\ Refused(p, Lowest(p))
             \/ CommitEdit(p) \/ CommitDelete(p) \/ Fail(p) \/ Lose(p)
    BY <2>7, <2>8 DEF Look, CommitEdit, CommitDelete, Fail, Lose, Rollback, CommitRows
  <2>9. ~(\/ Submit(p) \/ CheckItem(p) \/ LockKey(p) \/ Replay(p) \/ Collide(p)
          \/ InsertVoucher(p) \/ Deduct(p) \/ Refuse(p) \/ CommitSale(p) \/ Recheck(p)
          \/ PassOn(p))
    BY <2>0 DEF Submit, CheckItem, LockKey, Replay, Collide, InsertVoucher, Deduct, Refuse,
         CommitSale, Recheck, PassOn, MaintainerAt
  <2> QED
    BY <2>1, <2>2, <2>3, <2>4, <2>5, <2>6, <2>8, <2>9 DEF Step, Advance
<1> QED
  BY <1>1, <1>2

\* Whoever sells, edits and deletes beside it, a request without the permission
\* commits no row that it has lowered below zero, but for an item that its edit
\* adds to the sale and so has not locked when it looks.
THEOREM OnlyPrivilegedOversellHolds == Spec => OnlyPrivilegedOversell
<1>1. ASSUME Typed, SellersInv, MaintainersInv, NEW p \in Request \ Privileged,
             NEW i \in Item, CommitRows(p), stock'[i] < stock[i]
      PROVE  stock'[i] >= 0 \/ (p \in Maintainer /\ tx[p].old[i] = 0)
  <2>1. stock'[i] = Seen(p, i) /\ stock[i] \in Int
    BY <1>1 DEF CommitRows, Typed, TypeOK
  <2>2. rowLock[i] = p /\ stock'[i] = tx[p].row[i] /\ tx[p].row[i] \in Int
    BY <1>1, <2>1, TxOf DEF Seen, Typed
  <2>3. CASE p \in Seller
    BY <1>1, <2>2, <2>3 DEF SellersInv, RowsInOrder
  <2>4. CASE p \in Maintainer
    <3>1. NotLowered(p)
      BY <1>1, <2>4 DEF MaintainersInv, Covered
    <3>2. tx[p].old[i] \in Nat
      BY <1>1, TxOf DEF Basket, Typed
    <3>3. tx[p].row[i] < stock[i] /\ ~(tx[p].row[i] >= stock[i])
      BY <1>1, <2>1, <2>2
    <3>4. pc[p] \in {"look", "issue"}
      BY <2>2, <3>1, <3>3 DEF NotLowered, MaintainerAt
    <3>5. tx[p].old[i] > 0 => tx[p].row[i] >= 0
      BY <1>1, <2>2, <3>1, <3>3, <3>4 DEF NotLowered
    <3> QED
      BY <2>2, <2>4, <3>2, <3>5
  <2> QED
    BY <2>3, <2>4 DEF Request
<1>2. Typed /\ SellersInv /\ MaintainersInv =>
        \A p \in Request \ Privileged, i \in Item :
          CommitRows(p) /\ stock'[i] < stock[i] =>
            stock'[i] >= 0 \/ (p \in Maintainer /\ tx[p].old[i] = 0)
  BY <1>1
<1>3. Spec => []MaintainersInv
  BY TypedInit, NextTyped, MaintainersInit, MaintainersStep, PTL DEF Spec
<1> QED
  BY <1>2, <1>3, SellersAlways, PTL DEF OnlyPrivilegedOversell

-----------------------------------------------------------------------------
(* A sale that was stored is not reported as failed *)

StoredIsThere ==
  \A p \in Request : pc[p] = "recheck" /\ tx[p].wrote => sale[tx[p].id].status # "none"

LEMMA NeverUnsold ==
  ASSUME Typed, NEW p \in Request, Step(p), NEW s \in SaleId, sale[s].status # "none"
  PROVE  sale'[s].status # "none"
<1>1. CASE UNCHANGED Committed
  BY <1>1 DEF Committed
<1>2. CASE CommitSale(p) \/ CommitDelete(p)
  <2>1. \E st \in {"active", "deleted"} : \E b :
          sale' = [sale EXCEPT ![tx[p].id] = [status |-> st, items |-> b]]
    <3>1. CASE CommitSale(p)
      BY <3>1 DEF CommitSale
    <3>2. CASE CommitDelete(p)
      BY <3>2 DEF CommitDelete
    <3> QED
      BY <1>2, <3>1, <3>2
  <2> QED
    BY <2>1 DEF Typed, TypeOK
<1>3. CASE CommitEdit(p)
  BY <1>3 DEF CommitEdit, Typed, TypeOK
<1> QED
  BY <1>1, <1>2, <1>3, OnlyCommits

LEMMA StoredByOwn ==
  ASSUME Typed, NEW p \in Request, Step(p)
  PROVE  pc'[p] = "recheck" /\ tx'[p].wrote => sale'[tx'[p].id].status # "none"
<1>0. TypeOK
  BY DEF Typed
<1>1. ASSUME Recheckable(p, FALSE), pc[p] # "idle"
      PROVE  ~tx'[p].wrote
  <2> PICK t \in Tx : Goes(p, "recheck", t) /\ t.wrote = FALSE
    BY <1>1, RecheckableEffect
  <2> QED
    BY <1>0 DEF Goes, TypeOK
<1>2. CASE CommitSale(p)
  <2>1. CASE Finish(p, "sold")
    BY <1>0, <2>1 DEF Finish, Goto, TypeOK
  <2>2. CASE Recheckable(p, TRUE)
    <3>1. pc[p] # "idle" /\ tx[p].id \in SaleId
          /\ sale' = [sale EXCEPT ![tx[p].id] = [status |-> "active", items |-> tx[p].want]]
      BY <1>2 DEF CommitSale, Typed, Roles
    <3> PICK t \in Tx : Goes(p, "recheck", t) /\ t.id = tx[p].id
      BY <2>2, <3>1, RecheckableEffect
    <3> QED
      BY <1>0, <3>1 DEF Goes, TypeOK
  <2> QED
    BY <1>2, <2>1, <2>2 DEF CommitSale
<1>3. CASE CheckItem(p) \/ Collide(p) \/ Refuse(p) \/ Fail(p)
  BY <1>0, <1>1, <1>3 DEF CheckItem, Collide, Refuse, Fail, Finish, Goto, TypeOK
<1>4. CASE Submit(p) \/ LockKey(p) \/ Replay(p) \/ InsertVoucher(p) \/ Deduct(p) \/ Recheck(p)
             \/ Restore(p) \/ BeginRebuild(p) \/ Look(p) \/ Issue(p) \/ CommitEdit(p)
             \/ PutBack(p) \/ CommitDelete(p) \/ BeginEdit(p) \/ BeginDelete(p)
             \/ PassOn(p) \/ Lose(p)
  <2>1. pc'[p] # "recheck"
    BY <1>0, <1>4 DEF Submit, LockKey, Replay, InsertVoucher, Deduct, Recheck, Restore,
          BeginRebuild, Look, Issue, CommitEdit, PutBack, CommitDelete, BeginEdit, BeginDelete,
          PassOn, Lose, Finish, Goto, TypeOK
  <2> QED
    BY <2>1
<1> QED
  BY <1>2, <1>3, <1>4 DEF Step, Advance

LEMMA StoredStep == Typed /\ StoredIsThere /\ [Next]_vars => StoredIsThere'
<1> SUFFICES ASSUME Typed, StoredIsThere, [Next]_vars PROVE StoredIsThere'
  OBVIOUS
<1>1. CASE UNCHANGED vars
  BY <1>1 DEF vars, StoredIsThere
<1>2. CASE Next
  <2> PICK p \in Request : Step(p)
    BY <1>2 DEF Next, Step
  <2> SUFFICES ASSUME NEW q \in Request, q # p, pc'[q] = "recheck", tx'[q].wrote
               PROVE  sale'[tx'[q].id].status # "none"
    BY StoredByOwn DEF StoredIsThere
  <2>1. pc[q] = "recheck" /\ tx[q] = tx'[q]
    BY Frame DEF Undisturbed
  <2>2. tx[q].id \in SaleId /\ sale[tx[q].id].status # "none"
    BY <2>1 DEF StoredIsThere, Typed, Roles
  <2> QED
    BY <2>1, <2>2, NeverUnsold
<1> QED
  BY <1>1, <1>2

\* A sale that its request has stored although the commit was reported as an error
\* is found by the second look, whatever else has happened to it, until it is deleted.
THEOREM CommittedIsNotFailedHolds == Spec => CommittedIsNotFailed
<1>1. Init => StoredIsThere
  BY DEF Init, StoredIsThere
<1>2. ASSUME Typed, StoredIsThere, NEW p \in Seller, Recheck(p), tx[p].wrote
      PROVE  answer'[p] = "sold" \/ sale[tx[p].id].status = "deleted"
  <2>1. p \in Request /\ pc[p] = "recheck" /\ tx[p].id \in SaleId
    BY <1>2 DEF Recheck, Request, Typed, Roles
  <2>2. sale[tx[p].id].status \in {"active", "deleted"}
    BY <1>2, <2>1 DEF StoredIsThere, Typed, TypeOK
  <2>3. answer'[p] = IF Active(tx[p].id) THEN "sold" ELSE "failed"
    BY <1>2, <2>1 DEF Recheck, Finish, Typed, TypeOK
  <2> QED
    BY <2>2, <2>3 DEF Active
<1>3. Typed /\ StoredIsThere =>
        \A p \in Seller :
          Recheck(p) /\ tx[p].wrote =>
            answer'[p] = "sold" \/ sale[tx[p].id].status = "deleted"
  BY <1>2
<1> QED
  BY <1>1, <1>3, TypedInit, NextTyped, StoredStep, PTL DEF Spec, CommittedIsNotFailed

=============================================================================
