---------------------- MODULE InventoryDocumentsProofs ----------------------
(***************************************************************************)
(* While every writer goes through the inventory helpers (sales and stock  *)
(* transfers, their edits and deletions), the open layers add up to the    *)
(* shortage and the cost-memory policy holds, for all documents, all       *)
(* quantities, all rates and every scale.  Whatever kinds of document are  *)
(* in use, the quantity of the row is what they moved, and the rate of     *)
(* stock on hand matches its value.  An unchanged edit of a sale changes   *)
(* nothing but, with fractions of units, the value by a cent.              *)
(*                                                                         *)
(* The strengthening is Sound: the two properties together with what a row *)
(* that does not exist is like, and that a stored document has neither a   *)
(* negative rate nor a negative value, which deleting it needs.  KindKnown *)
(* says that a document that is there, and could be undone, has its kind   *)
(* in the history.  For the quantity it is Created: a document is only     *)
(* there with its row, so that undoing one never starts from no row.  The  *)
(* rate needs that what left at its exact value was worth something        *)
(* (WorthKept).  An unchanged edit is a cent away at most because the rate *)
(* matches; that it is exact in whole units needs that the rate is then    *)
(* the rounded value per unit (WholeInv).                                  *)
(***************************************************************************)
EXTENDS InventoryDocuments, StockArithmeticProofs, TLAPS

SoundDocument(r) == r \notin {NoDoc, Deleted} => r.rate >= 0 /\ r.value >= 0

Sound ==
  /\ TypeOK
  /\ stock \in SoundStock
  /\ \A d \in Doc : SoundDocument(doc[d])

KindKnown ==
  /\ DOMAIN doc = Doc
  /\ \A d \in Doc : doc[d] \notin {NoDoc, Deleted} => doc[d].kind \in writers

IndInv == KindKnown /\ (HelperWritten => Sound)

-----------------------------------------------------------------------------
(* The documents *)

LEMMA WorthInNat ==
  ASSUME NEW q \in Nat, NEW r \in Nat
  PROVE  Worth(q, r) \in Nat
<1>1. q * r \in Nat
  BY ProductInNat
<1> QED
  BY <1>1, RoundedInNat, ScaleAssumption DEF Worth

LEMMA RecordIsSound ==
  ASSUME NEW d \in Doc, NEW kind \in Kinds, NEW q \in Amount, NEW r \in Nat, NEW v \in Nat,
         Sound, Record(d, kind, q, r, v), stock' \in SoundStock, writers' \subseteq Kinds
  PROVE  Sound'
<1>1. [kind |-> kind, qty |-> q, rate |-> r, value |-> v] \in Document
  BY DEF Document
<1>2. doc' \in [Doc -> Document \cup {NoDoc, Deleted}]
  BY <1>1 DEF Sound, TypeOK, Record
<1>3. \A e \in Doc : SoundDocument(doc'[e])
  BY <1>1 DEF Sound, TypeOK, Record, SoundDocument
<1> QED
  BY <1>2, <1>3 DEF Sound, TypeOK, SoundStock, SoundDocument

LEMMA RetireIsSound ==
  ASSUME NEW d \in Doc, Sound, Retire(d), stock' \in SoundStock
  PROVE  Sound'
<1>1. doc' \in [Doc -> Document \cup {NoDoc, Deleted}]
  BY DEF Sound, TypeOK, Retire
<1>2. \A e \in Doc : SoundDocument(doc'[e])
  BY DEF Sound, TypeOK, Retire, SoundDocument
<1> QED
  BY <1>1, <1>2 DEF Sound, TypeOK, SoundStock, SoundDocument, Retire

LEMMA PostedIsSound ==
  ASSUME NEW kind, NEW d \in Posted(kind), Sound
  PROVE  /\ d \in Doc
         /\ doc[d].qty \in Nat \ {0}
         /\ doc[d].rate \in Nat
         /\ doc[d].value \in Nat
<1>1. d \in Doc /\ doc[d] \notin {NoDoc, Deleted}
  BY DEF Posted
<1>2. doc[d] \in Document
  BY <1>1 DEF Sound, TypeOK
<1>3. SoundDocument(doc[d])
  BY <1>1 DEF Sound
<1>4. Amount \subseteq Nat \ {0}
  BY DocumentAssumption
<1>5. doc[d].qty \in Amount /\ doc[d].rate \in Int /\ doc[d].value \in Int
  BY <1>2 DEF Document
<1>6. doc[d].rate >= 0 /\ doc[d].value >= 0
  BY <1>1, <1>3 DEF SoundDocument
<1>7. doc[d].qty \in Nat \ {0}
  BY <1>4, <1>5
<1>8. doc[d].rate \in Nat /\ doc[d].value \in Nat
  BY <1>5, <1>6
<1> QED
  BY <1>1, <1>7, <1>8

-----------------------------------------------------------------------------
(* The history *)

LEMMA RecordIsKnown ==
  ASSUME KindKnown, NEW d \in Doc, NEW kind \in writers', writers \subseteq writers',
         NEW q, NEW r, NEW v, Record(d, kind, q, r, v)
  PROVE  KindKnown'
BY DEF KindKnown, Record

LEMMA RetireIsKnown ==
  ASSUME KindKnown, NEW d \in Doc, Retire(d)
  PROVE  KindKnown' /\ writers' = writers
BY DEF KindKnown, Retire

LEMMA HistoryStep ==
  ASSUME KindKnown, [Next]_vars
  PROVE  KindKnown' /\ writers \subseteq writers'
<1>1. ASSUME NEW d \in Doc, PostSale(d) PROVE KindKnown' /\ writers \subseteq writers'
  BY <1>1, RecordIsKnown DEF PostSale, Post
<1>2. ASSUME NEW d \in Doc, EditSale(d) PROVE KindKnown' /\ writers \subseteq writers'
  <2>1. "sale" \in writers /\ writers' = writers
    BY <1>2 DEF EditSale, Posted, KindKnown
  <2> QED
    BY <1>2, <2>1, RecordIsKnown DEF EditSale
<1>3. ASSUME NEW d \in Doc,
             \/ PostTransferIn(d) \/ PostTransferOut(d) \/ PostOffload(d)
             \/ PostProduction(d) \/ PostConsumption(d)
      PROVE  KindKnown' /\ writers \subseteq writers'
  BY <1>3, RecordIsKnown
     DEF PostTransferIn, PostTransferOut, PostOffload, PostProduction, PostConsumption, Post
<1>4. ASSUME NEW d \in Doc,
             \/ DeleteSale(d) \/ DeleteTransferIn(d) \/ DeleteTransferOut(d)
             \/ DeleteOffload(d) \/ DeleteProduction(d) \/ DeleteConsumption(d)
      PROVE  KindKnown' /\ writers \subseteq writers'
  BY <1>4, RetireIsKnown
     DEF DeleteSale, DeleteTransferIn, DeleteTransferOut, DeleteOffload, DeleteProduction,
         DeleteConsumption
<1>5. CASE UNCHANGED vars
  BY <1>5 DEF vars, KindKnown
<1> QED
  BY <1>1, <1>2, <1>3, <1>4, <1>5 DEF Next

\* While the history has no other kind, no document of another kind is posted
\* or undone.
LEMMA OthersAreOut ==
  ASSUME KindKnown, HelperWritten', NEW d \in Doc,
         \/ PostOffload(d) \/ PostProduction(d) \/ PostConsumption(d)
         \/ DeleteOffload(d) \/ DeleteProduction(d) \/ DeleteConsumption(d)
  PROVE  FALSE
<1> DEFINE others == {"offload", "production", "consumption"}
<1>1. CASE PostOffload(d) \/ PostProduction(d) \/ PostConsumption(d)
  <2>1. \E kind \in others : kind \in writers'
    BY <1>1 DEF PostOffload, PostProduction, PostConsumption, Post
  <2> QED
    BY <2>1 DEF HelperWritten, HelperKinds
<1>2. CASE DeleteOffload(d) \/ DeleteProduction(d) \/ DeleteConsumption(d)
  <2>1. d \in Posted("offload") \cup Posted("production") \cup Posted("consumption")
    BY <1>2 DEF DeleteOffload, DeleteProduction, DeleteConsumption
  <2>2. doc[d].kind \in writers /\ doc[d].kind \in others
    BY <2>1 DEF Posted, KindKnown
  <2>3. writers' = writers
    BY <1>2 DEF DeleteOffload, DeleteProduction, DeleteConsumption, Retire
  <2> QED
    BY <2>2, <2>3 DEF HelperWritten, HelperKinds
<1> QED
  BY <1>1, <1>2

-----------------------------------------------------------------------------
LEMMA SoundStep ==
  ASSUME KindKnown, Sound, [Next]_vars, HelperWritten'
  PROVE  Sound'
<1>0. /\ stock \in SoundStock /\ stock.rate \in Nat
      /\ Amount \subseteq Nat \ {0} /\ Rates \subseteq Nat \ {0}
  BY DocumentAssumption DEF Sound, SoundStock, Stock
<1>1. ASSUME NEW d \in Doc, PostSale(d) PROVE Sound'
  <2>1. PICK q \in Amount :
          stock' = Issue(stock, q) /\ Record(d, "sale", q, stock.rate, Worth(q, stock.rate))
    BY <1>1 DEF PostSale
  <2>2. stock' \in SoundStock
    BY <2>1, <1>0, IssueIsSound
  <2>3. "sale" \in Kinds /\ writers' \subseteq Kinds
    BY <1>1 DEF PostSale, Post, Sound, TypeOK
  <2> QED
    BY <2>1, <2>2, <2>3, <1>0, WorthInNat, RecordIsSound
<1>2. ASSUME NEW d \in Doc, EditSale(d) PROVE Sound'
  <2> DEFINE restored == RestoreSale(stock, doc[d].qty)
  <2>1. PICK q \in Amount, keepsId \in BOOLEAN :
          LET cost == IF keepsId THEN doc[d].rate ELSE restored.rate
          IN stock' = Issue(restored, q) /\ Record(d, "sale", q, cost, Worth(q, cost))
    BY <1>2 DEF EditSale
  <2>2. /\ d \in Posted("sale") /\ doc[d].kind = "sale"
        /\ doc[d] \in Document
    BY <1>2 DEF EditSale, Posted, Sound, TypeOK
  <2>3. restored \in SoundStock
    BY <2>2, <1>0, PostedIsSound, RestoreSaleIsSound
  <2>4. stock' \in SoundStock
    BY <2>1, <2>3, <1>0, IssueIsSound
  <2>5. (IF keepsId THEN doc[d].rate ELSE restored.rate) \in Nat
    <3>1. doc[d].rate \in Nat
      BY <2>2, PostedIsSound
    <3>2. restored.rate \in Nat
      BY <2>3 DEF SoundStock, Stock
    <3> QED
      BY <3>1, <3>2
  <2>6. "sale" \in Kinds /\ writers' \subseteq Kinds
    BY <1>2, <2>2 DEF Document, EditSale, Sound, TypeOK
  <2> QED
    BY <1>0, <2>1, <2>4, <2>5, <2>6, WorthInNat, RecordIsSound
<1>3. ASSUME NEW d \in Doc, DeleteSale(d) PROVE Sound'
  <2>1. stock' \in SoundStock
    BY <1>0, <1>3, PostedIsSound, ReceiveIsSound DEF DeleteSale
  <2> QED
    BY <1>3, <2>1, RetireIsSound DEF DeleteSale
<1>4. ASSUME NEW d \in Doc, PostTransferIn(d) PROVE Sound'
  <2>1. PICK q \in Amount, r \in Rates :
          stock' = Receive(stock, q, r) /\ Record(d, "transfer in", q, r, Worth(q, r))
    BY <1>4 DEF PostTransferIn
  <2>2. stock' \in SoundStock
    BY <2>1, <1>0, ReceiveIsSound
  <2>3. "transfer in" \in Kinds /\ writers' \subseteq Kinds
    BY <1>4 DEF PostTransferIn, Post, Sound, TypeOK
  <2> QED
    BY <2>1, <2>2, <2>3, <1>0, WorthInNat, RecordIsSound
<1>5. ASSUME NEW d \in Doc, DeleteTransferIn(d) PROVE Sound'
  <2>1. stock' \in SoundStock
    BY <1>0, <1>5, PostedIsSound, ReverseExactIsSound DEF DeleteTransferIn
  <2> QED
    BY <1>5, <2>1, RetireIsSound DEF DeleteTransferIn
<1>6. ASSUME NEW d \in Doc, PostTransferOut(d) PROVE Sound'
  <2>1. PICK q \in Amount, r \in Rates :
          /\ stock' = IF stock.exists THEN Issue(stock, q)
                      ELSE [Issue(stock, q) EXCEPT !.rate = r]
          /\ Record(d, "transfer out", q, r, Worth(q, r))
    BY <1>6 DEF PostTransferOut
  <2>2. Issue(stock, q) \in SoundStock
    BY <1>0, IssueIsSound
  <2>3. [Issue(stock, q) EXCEPT !.rate = r] \in SoundStock
    BY <2>2, <1>0 DEF SoundStock, Stock
  <2>4. "transfer out" \in Kinds /\ writers' \subseteq Kinds
    BY <1>6 DEF PostTransferOut, Post, Sound, TypeOK
  <2> QED
    BY <2>1, <2>2, <2>3, <2>4, <1>0, WorthInNat, RecordIsSound
<1>7. ASSUME NEW d \in Doc, DeleteTransferOut(d) PROVE Sound'
  <2>1. stock' \in SoundStock
    BY <1>0, <1>7, PostedIsSound, RestoreExactIsSound DEF DeleteTransferOut
  <2> QED
    BY <1>7, <2>1, RetireIsSound DEF DeleteTransferOut
<1>8. ASSUME NEW d \in Doc,
             \/ PostOffload(d) \/ PostProduction(d) \/ PostConsumption(d)
             \/ DeleteOffload(d) \/ DeleteProduction(d) \/ DeleteConsumption(d)
      PROVE  FALSE
  BY <1>8, OthersAreOut
<1>9. CASE UNCHANGED vars
  BY <1>9 DEF vars, Sound, TypeOK, SoundStock, SoundDocument
<1> QED
  BY <1>1, <1>2, <1>3, <1>4, <1>5, <1>6, <1>7, <1>8, <1>9 DEF Next

LEMMA Induction ==
  ASSUME IndInv, [Next]_vars
  PROVE  IndInv'
<1>1. KindKnown' /\ writers \subseteq writers'
  BY HistoryStep DEF IndInv
<1>2. ASSUME HelperWritten' PROVE Sound'
  <2>1. HelperWritten
    BY <1>1, <1>2 DEF HelperWritten
  <2> QED
    BY <1>2, <2>1, SoundStep DEF IndInv
<1> QED
  BY <1>1, <1>2 DEF IndInv

LEMMA Initially == Init => IndInv
<1> SUFFICES ASSUME Init PROVE IndInv
  OBVIOUS
<1>1. stock \in SoundStock
  BY DEF Init, NoStock, SoundStock, Stock, Larger
<1>2. Sound
  BY <1>1 DEF Init, Sound, TypeOK, SoundStock, SoundDocument
<1> QED
  BY <1>2 DEF Init, IndInv, KindKnown

\* IndInv is an invariant of every instance, whatever kinds of document it has.
THEOREM Invariance == Spec => []IndInv
<1>1. IndInv /\ [Next]_vars => IndInv'
  BY Induction
<1> QED
  BY <1>1, Initially, PTL DEF Spec

\* While sales and transfers are the only documents posted, the open negative
\* layers add up to the shortage of the row, whatever is posted, edited and
\* deleted and in whatever order.
THEOREM HelpersKeepLayersHolds == Spec => []HelpersKeepLayers
<1>1. IndInv => HelpersKeepLayers
  BY DEF IndInv, Sound, SoundStock, HelpersKeepLayers, ShortageIsLayered
<1> QED
  BY <1>1, Invariance, PTL

\* The same documents keep the cost-memory policy.
THEOREM HelpersKeepPolicyHolds == Spec => []HelpersKeepPolicy
<1>1. IndInv => HelpersKeepPolicy
  BY DEF IndInv, Sound, SoundStock, HelpersKeepPolicy, CostMemoryPolicy
<1> QED
  BY <1>1, Invariance, PTL

-----------------------------------------------------------------------------
(* The quantity: for all kinds of document *)

\* A row that was ever moved exists, and a missing one has no quantity.
Created ==
  /\ ~stock.exists => stock.qty = 0
  /\ \A d \in Doc : doc[d] # NoDoc => stock.exists

DocumentedInv == TypeOK /\ Created /\ QuantityIsDocumented

LEMMA MovedInInt ==
  ASSUME NEW r \in Document \cup {NoDoc, Deleted}
  PROVE  Moved(r) \in Int
<1>1. CASE r \in {NoDoc, Deleted}
  BY <1>1 DEF Moved
<1>2. CASE r \notin {NoDoc, Deleted}
  <2>1. r \in [kind : Kinds, qty : Amount, rate : Int, value : Int]
    BY <1>2 DEF Document
  <2>2. r.qty \in Amount
    BY <2>1
  <2>3. Amount \subseteq Nat \ {0}
    BY DocumentAssumption
  <2>4. r.qty \in Nat \ {0}
    BY <2>2, <2>3, Zenon
  <2>5. r.qty \in Int
    BY <2>4
  <2> QED
    BY <1>2, <2>5 DEF Moved
<1> QED
  BY <1>1, <1>2

\* A step that changes one document, and moves the row by as much.
LEMMA OneDocument ==
  ASSUME TypeOK, QuantityIsDocumented, NEW d \in Doc, NEW x \in Document \cup {NoDoc, Deleted},
         doc' = [doc EXCEPT ![d] = x],
         stock'.qty = stock.qty - Moved(doc[d]) + Moved(x)
  PROVE  QuantityIsDocumented'
<1> DEFINE f == [e \in Doc |-> Moved(doc[e])]
           g == [e \in Doc |-> Moved(doc'[e])]
<1>1. \A e \in Doc : doc[e] \in Document \cup {NoDoc, Deleted}
  BY DEF TypeOK
<1>2. \A e \in Doc : doc'[e] = IF e = d THEN x ELSE doc[e]
  BY DEF TypeOK
<1>3. f \in [Doc -> Int]
  BY <1>1, MovedInInt
<1>4. \A e \in Doc : Moved(doc'[e]) \in Int
  BY <1>1, <1>2, MovedInInt
<1>5. g \in [Doc -> Int]
  BY <1>4
<1>6. f[d] = Moved(doc[d]) /\ g[d] = Moved(x) /\ \A e \in Doc \ {d} : g[e] = f[e]
  BY <1>2
<1>7. stock.qty = SumFunction(f)
  BY DEF QuantityIsDocumented
<1>8. IsFiniteSet(Doc)
  BY DocumentAssumption
<1> HIDE DEF f, g
<1>9. SumFunction(g) = SumFunction(f) - f[d] + g[d]
  BY <1>3, <1>5, <1>6, <1>8, SumChanges
<1>10. stock'.qty = SumFunction(g)
  BY <1>6, <1>7, <1>9
<1> QED
  BY <1>10 DEF g, QuantityIsDocumented

LEMMA RecordIsDocumented ==
  ASSUME DocumentedInv, NEW d \in Doc, NEW kind \in Kinds, NEW q \in Amount, NEW r \in Int,
         NEW v \in Int, Record(d, kind, q, r, v),
         stock' \in Stock, stock'.exists, writers' \subseteq Kinds,
         stock'.qty = stock.qty - Moved(doc[d]) + (IF kind \in Incomings THEN q ELSE -q)
  PROVE  DocumentedInv'
<1> DEFINE x == [kind |-> kind, qty |-> q, rate |-> r, value |-> v]
<1>1. x \in Document /\ x.kind = kind /\ x.qty = q
  BY DEF Document
<1>2. x \notin {NoDoc, Deleted}
  <2>1. x \in [kind : AllKinds, qty : Nat, rate : Int, value : Int]
    BY DocumentAssumption
  <2> QED
    BY <2>1, DocumentAssumption
<1>3. doc' = [doc EXCEPT ![d] = x]
  BY DEF Record
<1> HIDE DEF x
<1>4. Moved(x) = IF kind \in Incomings THEN q ELSE -q
  BY <1>1, <1>2 DEF Moved
<1>5. QuantityIsDocumented'
  BY <1>1, <1>3, <1>4, OneDocument DEF DocumentedInv
<1>6. TypeOK'
  BY <1>1, <1>3 DEF DocumentedInv, TypeOK
<1> QED
  BY <1>5, <1>6 DEF DocumentedInv, Created

LEMMA PostedIsDocumented ==
  ASSUME DocumentedInv, NEW kind, NEW d \in Posted(kind)
  PROVE  /\ d \in Doc /\ stock.exists /\ kind \in Kinds
         /\ doc[d].qty \in Nat \ {0} /\ doc[d].rate \in Int /\ doc[d].value \in Int
         /\ Moved(doc[d]) = IF kind \in Incomings THEN doc[d].qty ELSE -doc[d].qty
<1>1. d \in Doc /\ doc[d] \notin {NoDoc, Deleted} /\ doc[d].kind = kind
  BY DEF Posted
<1>2. doc[d] \in Document
  BY <1>1 DEF DocumentedInv, TypeOK
<1>3. /\ doc[d].kind \in Kinds /\ doc[d].qty \in Amount
      /\ doc[d].rate \in Int /\ doc[d].value \in Int
  BY <1>2 DEF Document
<1>4. doc[d].qty \in Nat \ {0}
  BY <1>3, DocumentAssumption
<1>5. stock.exists
  BY <1>1 DEF DocumentedInv, Created
<1> QED
  BY <1>1, <1>3, <1>4, <1>5 DEF Moved

LEMMA PostIsDocumented ==
  ASSUME DocumentedInv, NEW d \in Doc, NEW kind, NEW q \in Amount, NEW r \in Int,
         NEW v \in Int, Post(d, kind), Record(d, kind, q, r, v),
         stock' \in Stock, stock'.exists,
         \/ kind \in Incomings /\ stock'.qty = stock.qty + q
         \/ kind \notin Incomings /\ stock'.qty = stock.qty - q
  PROVE  DocumentedInv'
<1>1. /\ kind \in Kinds /\ doc[d] = NoDoc /\ writers' = writers \cup {kind}
      /\ writers \subseteq Kinds /\ stock \in Stock
  BY DEF Post, DocumentedInv, TypeOK
<1>2. writers' \subseteq Kinds
  BY <1>1
<1>3. Moved(doc[d]) = 0
  BY <1>1 DEF Moved
<1>4. stock.qty \in Int
  BY <1>1 DEF Stock
<1>5. q \in Int
  BY DocumentAssumption
<1> DEFINE m == IF kind \in Incomings THEN q ELSE -q
<1>6. m \in Int /\ stock'.qty = stock.qty + m
  BY <1>4, <1>5
<1> HIDE DEF m
<1>7. stock'.qty = stock.qty - Moved(doc[d]) + m
  BY <1>3, <1>4, <1>6
<1> USE DEF m
<1> QED
  BY <1>1, <1>2, <1>7, RecordIsDocumented

LEMMA RetireIsDocumented ==
  ASSUME DocumentedInv, NEW kind, NEW d \in Posted(kind), Retire(d),
         stock' \in Stock, stock'.exists,
         \/ kind \in Incomings /\ stock'.qty = stock.qty - doc[d].qty
         \/ kind \notin Incomings /\ stock'.qty = stock.qty + doc[d].qty
  PROVE  DocumentedInv'
<1>1. doc' = [doc EXCEPT ![d] = Deleted] /\ writers' = writers
  BY DEF Retire
<1>2. /\ d \in Doc /\ doc[d].qty \in Nat \ {0}
      /\ Moved(doc[d]) = IF kind \in Incomings THEN doc[d].qty ELSE -doc[d].qty
  BY PostedIsDocumented
<1>3. stock.qty \in Int
  BY DEF DocumentedInv, TypeOK, Stock
<1> DEFINE m == Moved(doc[d])
<1>4. m \in Int /\ stock'.qty = stock.qty - m
  BY <1>2, <1>3
<1>5. Moved(Deleted) = 0
  BY DEF Moved
<1> HIDE DEF m
<1>6. stock'.qty = stock.qty - m + Moved(Deleted)
  BY <1>3, <1>4, <1>5
<1> USE DEF m
<1>7. QuantityIsDocumented'
  BY <1>1, <1>2, <1>6, OneDocument DEF DocumentedInv
<1>8. TypeOK'
  BY <1>1 DEF DocumentedInv, TypeOK
<1> QED
  BY <1>2, <1>7, <1>8 DEF DocumentedInv, Created

LEMMA WorthInInt ==
  ASSUME NEW q \in Nat, NEW r \in Int
  PROVE  Worth(q, r) \in Int
<1>1. q * r \in Int
  OBVIOUS
<1> QED
  BY <1>1, RoundedInInt, ScaleAssumption DEF Worth

LEMMA DocumentedStep ==
  ASSUME DocumentedInv, NEW d \in Doc,
         \/ PostSale(d) \/ EditSale(d) \/ DeleteSale(d)
         \/ PostTransferIn(d) \/ DeleteTransferIn(d)
         \/ PostTransferOut(d) \/ DeleteTransferOut(d)
         \/ PostOffload(d) \/ DeleteOffload(d)
         \/ PostProduction(d) \/ DeleteProduction(d)
         \/ PostConsumption(d) \/ DeleteConsumption(d)
  PROVE  DocumentedInv' /\ stock'.exists
<1>0. /\ stock \in Stock /\ stock.qty \in Int /\ stock.rate \in Int
      /\ (~stock.exists => stock.qty = 0)
      /\ Amount \subseteq Nat \ {0} /\ Rates \subseteq Nat \ {0} /\ OpeningRate \in Nat \ {0}
      /\ writers \subseteq Kinds
  BY DocumentAssumption DEF DocumentedInv, TypeOK, Created, Stock
<1>1. stock.qty \in Int
  BY <1>0
<1>2. CASE PostSale(d)
  <2>1. PICK q \in Amount :
          stock' = Issue(stock, q) /\ Record(d, "sale", q, stock.rate, Worth(q, stock.rate))
    BY <1>2 DEF PostSale
  <2>2. Post(d, "sale") /\ "sale" \notin Incomings
    BY <1>2 DEF PostSale, Incomings
  <2>3. q \in Nat \ {0} /\ stock.rate \in Int /\ Worth(q, stock.rate) \in Int
    BY <1>0, WorthInInt
  <2>4. stock' \in Stock /\ stock'.exists /\ stock'.qty = stock.qty - q
    BY <1>0, <2>1, <2>3, IssueMoves
  <2>5. stock.rate \in Int /\ Worth(q, stock.rate) \in Int
    BY <2>3
  <2>6. Record(d, "sale", q, stock.rate, Worth(q, stock.rate))
    BY <2>1
  <2> QED
    BY <2>2, <2>4, <2>5, <2>6, PostIsDocumented
<1>3. CASE EditSale(d)
  <2> DEFINE restored == RestoreSale(stock, doc[d].qty)
  <2>1. PICK q \in Amount, keepsId \in BOOLEAN :
          LET cost == IF keepsId THEN doc[d].rate ELSE restored.rate
          IN stock' = Issue(restored, q) /\ Record(d, "sale", q, cost, Worth(q, cost))
    BY <1>3 DEF EditSale
  <2> DEFINE cost == IF keepsId THEN doc[d].rate ELSE restored.rate
  <2>2. /\ "sale" \in Kinds /\ "sale" \notin Incomings
        /\ doc[d].qty \in Nat \ {0} /\ doc[d].rate \in Int /\ Moved(doc[d]) = -doc[d].qty
    BY <1>3, PostedIsDocumented DEF EditSale, Incomings
  <2>3. restored \in Stock /\ restored.exists /\ restored.qty = stock.qty + doc[d].qty
    BY <1>0, <2>2, RestoreSaleMoves
  <2>4. q \in Nat \ {0} /\ cost \in Int
    BY <1>0, <2>2, <2>3 DEF Stock
  <2>5. Worth(q, cost) \in Int
    BY <2>4, WorthInInt
  <2>6. stock' \in Stock /\ stock'.exists /\ stock'.qty = restored.qty - q
    BY <2>1, <2>3, <2>4, IssueMoves
  <2>7. stock'.qty = stock.qty - Moved(doc[d]) + (IF "sale" \in Incomings THEN q ELSE -q)
    BY <1>1, <2>2, <2>3, <2>4, <2>6
  <2>8. Record(d, "sale", q, cost, Worth(q, cost)) /\ writers' \subseteq Kinds
    BY <1>0, <1>3, <2>1 DEF EditSale
  <2> HIDE DEF cost, restored
  <2> QED
    BY <2>2, <2>4, <2>5, <2>6, <2>7, <2>8, RecordIsDocumented
<1>4. CASE DeleteSale(d)
  <2>1. /\ "sale" \notin Incomings
        /\ doc[d].qty \in Nat \ {0} /\ doc[d].rate \in Int
    BY <1>4, PostedIsDocumented DEF DeleteSale, Incomings
  <2>2. stock' \in Stock /\ stock'.exists /\ stock'.qty = stock.qty + doc[d].qty
    BY <1>0, <1>4, <2>1, ReceiveMoves DEF DeleteSale
  <2> QED
    BY <1>4, <2>1, <2>2, RetireIsDocumented DEF DeleteSale
<1>5. CASE PostTransferIn(d)
  <2>1. PICK q \in Amount, r \in Rates :
          stock' = Receive(stock, q, r) /\ Record(d, "transfer in", q, r, Worth(q, r))
    BY <1>5 DEF PostTransferIn
  <2>2. Post(d, "transfer in") /\ "transfer in" \in Incomings
    BY <1>5 DEF PostTransferIn, Incomings
  <2>3. q \in Nat \ {0} /\ r \in Int /\ Worth(q, r) \in Int
    BY <1>0, WorthInInt
  <2>4. stock' \in Stock /\ stock'.exists /\ stock'.qty = stock.qty + q
    BY <1>0, <2>1, <2>3, ReceiveMoves
  <2> QED
    BY <2>1, <2>2, <2>3, <2>4, PostIsDocumented
<1>6. CASE DeleteTransferIn(d)
  <2>1. /\ "transfer in" \in Incomings /\ stock.exists /\ TRUE \in BOOLEAN
        /\ doc[d].qty \in Nat \ {0} /\ doc[d].value \in Int
    BY <1>6, PostedIsDocumented DEF DeleteTransferIn, Incomings
  <2>2. stock' \in Stock /\ stock'.exists /\ stock'.qty = stock.qty - doc[d].qty
    BY <1>0, <1>6, <2>1, ReverseExactMoves DEF DeleteTransferIn
  <2> QED
    BY <1>6, <2>1, <2>2, RetireIsDocumented DEF DeleteTransferIn
<1>7. CASE PostTransferOut(d)
  <2>1. PICK q \in Amount, r \in Rates :
          /\ stock' = IF stock.exists THEN Issue(stock, q)
                      ELSE [Issue(stock, q) EXCEPT !.rate = r]
          /\ Record(d, "transfer out", q, r, Worth(q, r))
    BY <1>7 DEF PostTransferOut
  <2>2. Post(d, "transfer out") /\ "transfer out" \notin Incomings
    BY <1>7 DEF PostTransferOut, Incomings
  <2>3. q \in Nat \ {0} /\ r \in Int /\ Worth(q, r) \in Int
    BY <1>0, WorthInInt
  <2> DEFINE issued == Issue(stock, q)
  <2>4. issued \in Stock /\ issued.exists /\ issued.qty = stock.qty - q
    BY <1>0, <2>3, IssueMoves
  <2>5. stock' = issued \/ stock' = [issued EXCEPT !.rate = r]
    BY <2>1
  <2> HIDE DEF issued
  <2>6. stock' \in Stock /\ stock'.exists /\ stock'.qty = stock.qty - q
    BY <2>3, <2>4, <2>5 DEF Stock
  <2> QED
    BY <2>1, <2>2, <2>3, <2>4, <2>5, <2>6, PostIsDocumented
<1>8. CASE DeleteTransferOut(d)
  <2>1. /\ "transfer out" \notin Incomings
        /\ doc[d].qty \in Nat \ {0} /\ doc[d].value \in Int
    BY <1>8, PostedIsDocumented DEF DeleteTransferOut, Incomings
  <2>2. stock' \in Stock /\ stock'.exists /\ stock'.qty = stock.qty + doc[d].qty
    BY <1>0, <1>8, <2>1, RestoreExactMoves DEF DeleteTransferOut
  <2> QED
    BY <1>8, <2>1, <2>2, RetireIsDocumented DEF DeleteTransferOut
<1>9. CASE PostOffload(d)
  <2>1. PICK q \in Amount, r \in Rates :
          stock' = Offload(stock, q, Worth(q, r)) /\ Record(d, "offload", q, r, Worth(q, r))
    BY <1>9 DEF PostOffload
  <2>2. Post(d, "offload") /\ "offload" \in Incomings
    BY <1>9 DEF PostOffload, Incomings
  <2>3. q \in Nat \ {0} /\ r \in Int /\ Worth(q, r) \in Int
    BY <1>0, WorthInInt
  <2>4. stock' \in Stock /\ stock'.exists /\ stock'.qty = stock.qty + q
    BY <1>0, <2>1, <2>3, OffloadMoves
  <2> QED
    BY <2>1, <2>2, <2>3, <2>4, PostIsDocumented
<1>10. CASE DeleteOffload(d)
  <2>1. /\ "offload" \in Incomings /\ stock.exists /\ FALSE \in BOOLEAN
        /\ doc[d].qty \in Nat \ {0} /\ doc[d].value \in Int
    BY <1>10, PostedIsDocumented DEF DeleteOffload, Incomings
  <2>2. stock' \in Stock /\ stock'.exists /\ stock'.qty = stock.qty - doc[d].qty
    BY <1>0, <1>10, <2>1, ReverseExactMoves DEF DeleteOffload
  <2> QED
    BY <1>10, <2>1, <2>2, RetireIsDocumented DEF DeleteOffload
<1>11. CASE PostProduction(d)
  <2>1. PICK q \in Amount, r \in Rates :
          stock' = Produce(stock, q, r) /\ Record(d, "production", q, r, Worth(q, r))
    BY <1>11 DEF PostProduction
  <2>2. Post(d, "production") /\ "production" \in Incomings
    BY <1>11 DEF PostProduction, Incomings
  <2>3. q \in Nat \ {0} /\ r \in Int /\ Worth(q, r) \in Int
    BY <1>0, WorthInInt
  <2>4. stock' \in Stock /\ stock'.exists /\ stock'.qty = stock.qty + q
    BY <1>0, <2>1, <2>3, ProduceMoves
  <2> QED
    BY <2>1, <2>2, <2>3, <2>4, PostIsDocumented
<1>12. CASE DeleteProduction(d)
  <2>1. /\ "production" \in Incomings /\ stock.exists /\ TRUE \in BOOLEAN
        /\ doc[d].qty \in Nat \ {0} /\ doc[d].value \in Int
    BY <1>12, PostedIsDocumented DEF DeleteProduction, Incomings
  <2>2. stock' \in Stock /\ stock'.exists /\ stock'.qty = stock.qty - doc[d].qty
    BY <1>0, <1>12, <2>1, ReverseExactMoves DEF DeleteProduction
  <2> QED
    BY <1>12, <2>1, <2>2, RetireIsDocumented DEF DeleteProduction
<1>13. CASE PostConsumption(d)
  <2> DEFINE r == IF stock.exists THEN stock.rate ELSE OpeningRate
  <2>1. PICK q \in Amount :
          /\ stock' = Consume(stock, q, OpeningRate)
          /\ Record(d, "consumption", q, r, Worth(q, Magnitude(r)))
    BY <1>13 DEF PostConsumption
  <2>2. Post(d, "consumption") /\ "consumption" \notin Incomings
    BY <1>13 DEF PostConsumption, Incomings
  <2>3. q \in Nat \ {0} /\ r \in Int /\ OpeningRate \in Int /\ Magnitude(r) \in Int
    BY <1>0 DEF Magnitude
  <2>4. Worth(q, Magnitude(r)) \in Int
    BY <2>3, WorthInInt
  <2>5. stock' \in Stock /\ stock'.exists /\ stock'.qty = stock.qty - q
    BY <1>0, <2>1, <2>3, ConsumeMoves
  <2> HIDE DEF r
  <2> QED
    BY <2>1, <2>2, <2>3, <2>4, <2>5, PostIsDocumented
<1>14. CASE DeleteConsumption(d)
  <2>1. /\ "consumption" \notin Incomings
        /\ doc[d].qty \in Nat \ {0} /\ doc[d].value \in Int
    BY <1>14, PostedIsDocumented DEF DeleteConsumption, Incomings
  <2>2. stock' \in Stock /\ stock'.exists /\ stock'.qty = stock.qty + doc[d].qty
    BY <1>0, <1>14, <2>1, RestoreExactMoves DEF DeleteConsumption
  <2> QED
    BY <1>14, <2>1, <2>2, RetireIsDocumented DEF DeleteConsumption
<1> QED
  BY <1>2, <1>3, <1>4, <1>5, <1>6, <1>7, <1>8, <1>9, <1>10, <1>11, <1>12, <1>13, <1>14

LEMMA DocumentedInitially == Init => DocumentedInv
<1> SUFFICES ASSUME Init PROVE DocumentedInv
  OBVIOUS
<1>1. TypeOK
  BY DEF Init, TypeOK, NoStock, Stock
<1>2. Created
  BY DEF Init, Created, NoStock
<1>3. QuantityIsDocumented
  <2>1. [d \in Doc |-> Moved(doc[d])] = [d \in Doc |-> 0]
    BY DEF Init, Moved
  <2>2. SumFunction([d \in Doc |-> 0]) = 0
    BY SumOfZeros, DocumentAssumption
  <2> QED
    BY <2>1, <2>2 DEF Init, NoStock, QuantityIsDocumented
<1> QED
  BY <1>1, <1>2, <1>3 DEF DocumentedInv

LEMMA DocumentedInduction == DocumentedInv /\ [Next]_vars => DocumentedInv'
<1> SUFFICES ASSUME DocumentedInv, [Next]_vars PROVE DocumentedInv'
  OBVIOUS
<1>1. CASE Next
  BY <1>1, DocumentedStep DEF Next
<1>2. CASE UNCHANGED vars
  BY <1>2 DEF vars, DocumentedInv, TypeOK, Created, QuantityIsDocumented, Moved
<1> QED
  BY <1>1, <1>2

\* The row and the documents have their types in every instance.
THEOREM Typing == Spec => []TypeOK
<1>1. DocumentedInv => TypeOK
  BY DEF DocumentedInv
<1> QED
  BY <1>1, DocumentedInitially, DocumentedInduction, PTL DEF Spec

\* Whatever documents of all six kinds are posted, edited and deleted, and in
\* whatever order, the quantity on hand is the sum of what the posted ones moved.
THEOREM QuantityIsDocumentedHolds == Spec => []QuantityIsDocumented
<1>1. DocumentedInv => QuantityIsDocumented
  BY DEF DocumentedInv
<1> QED
  BY <1>1, DocumentedInitially, DocumentedInduction, PTL DEF Spec

-----------------------------------------------------------------------------
(* The average rate: for all kinds of document *)

\* The documents whose deletion gives back what they were worth.
ExactOutgoings == {"transfer out", "consumption"}

WorthKept ==
  /\ ~stock.exists => stock.short = 0
  /\ \A d \in Doc :
       doc[d] \notin {NoDoc, Deleted} /\ doc[d].kind \in ExactOutgoings => doc[d].value >= 0

MatchedInv == WorthKept /\ Matching(stock)

LEMMA RecordIsMatched ==
  ASSUME DocumentedInv, WorthKept, NEW d \in Doc, NEW kind, NEW q, NEW r, NEW v,
         Record(d, kind, q, r, v), stock'.exists, kind \in ExactOutgoings => v >= 0,
         Matching(stock')
  PROVE  MatchedInv'
<1> DEFINE x == [kind |-> kind, qty |-> q, rate |-> r, value |-> v]
<1>1. x.kind = kind /\ x.value = v
  OBVIOUS
<1>2. doc' = [doc EXCEPT ![d] = x]
  BY DEF Record
<1>3. DOMAIN doc = Doc
  BY DEF DocumentedInv, TypeOK
<1> HIDE DEF x
<1>4. \A e \in Doc : doc'[e] = IF e = d THEN x ELSE doc[e]
  BY <1>2, <1>3
<1>5. WorthKept'
  BY <1>1, <1>4 DEF WorthKept
<1> QED
  BY <1>5 DEF MatchedInv

LEMMA RetireIsMatched ==
  ASSUME DocumentedInv, WorthKept, NEW d \in Doc, Retire(d), stock'.exists, Matching(stock')
  PROVE  MatchedInv'
<1>1. doc' = [doc EXCEPT ![d] = Deleted]
  BY DEF Retire
<1>2. DOMAIN doc = Doc
  BY DEF DocumentedInv, TypeOK
<1>3. \A e \in Doc : doc'[e] = IF e = d THEN Deleted ELSE doc[e]
  BY <1>1, <1>2
<1>4. WorthKept'
  BY <1>3 DEF WorthKept
<1> QED
  BY <1>4 DEF MatchedInv

\* What undoing a document finds in it.
LEMMA UndoneFacts ==
  ASSUME DocumentedInv, WorthKept, NEW kind, NEW d \in Posted(kind)
  PROVE  /\ stock.exists /\ doc[d].qty \in Nat \ {0}
         /\ doc[d].rate \in Int /\ doc[d].value \in Int
         /\ kind \in ExactOutgoings => doc[d].value \in Nat
<1>1. /\ stock.exists /\ doc[d].qty \in Nat \ {0} /\ d \in Doc
      /\ doc[d].rate \in Int /\ doc[d].value \in Int
  BY PostedIsDocumented
<1>2. doc[d] \notin {NoDoc, Deleted} /\ doc[d].kind = kind
  BY DEF Posted
<1>3. kind \in ExactOutgoings => doc[d].value >= 0
  BY <1>1, <1>2 DEF WorthKept
<1>4. kind \in ExactOutgoings => doc[d].value \in Nat
  BY <1>1, <1>3
<1> QED
  BY <1>1, <1>4

LEMMA MatchedStep ==
  ASSUME DocumentedInv, MatchedInv, stock'.exists, NEW d \in Doc,
         \/ PostSale(d) \/ EditSale(d) \/ DeleteSale(d)
         \/ PostTransferIn(d) \/ DeleteTransferIn(d)
         \/ PostTransferOut(d) \/ DeleteTransferOut(d)
         \/ PostOffload(d) \/ DeleteOffload(d)
         \/ PostProduction(d) \/ DeleteProduction(d)
         \/ PostConsumption(d) \/ DeleteConsumption(d)
  PROVE  MatchedInv'
<1> USE DEF ExactOutgoings
<1>0. /\ stock \in Stock /\ stock.qty \in Int /\ stock.rate \in Int
      /\ (~stock.exists => stock.qty = 0) /\ (~stock.exists => stock.short = 0)
      /\ Amount \subseteq Nat \ {0} /\ Rates \subseteq Nat \ {0} /\ OpeningRate \in Nat \ {0}
      /\ WorthKept
  BY DocumentAssumption DEF DocumentedInv, TypeOK, Created, Stock, MatchedInv, WorthKept
<1>1. CASE PostSale(d)
  <2>1. PICK q \in Amount :
          stock' = Issue(stock, q) /\ Record(d, "sale", q, stock.rate, Worth(q, stock.rate))
    BY <1>1 DEF PostSale
  <2>2. q \in Nat \ {0}
    BY <1>0, WorthInInt
  <2>3. Matching(stock')
    BY <1>0, <2>1, <2>2, IssueMatches
  <2> QED
    BY <1>0, <2>1, <2>2, <2>3, RecordIsMatched
<1>2. CASE EditSale(d)
  <2> DEFINE restored == RestoreSale(stock, doc[d].qty)
  <2>1. PICK q, r, v : q \in Amount /\ stock' = Issue(restored, q) /\ Record(d, "sale", q, r, v)
    BY <1>2 DEF EditSale
  <2>2. doc[d].qty \in Nat \ {0}
    BY <1>0, <1>2, UndoneFacts DEF EditSale
  <2>3. restored \in Stock
    BY <1>0, <2>2, RestoreSaleMoves
  <2>4. q \in Nat \ {0}
    BY <1>0, <2>1
  <2>5. Matching(stock')
    BY <2>1, <2>3, <2>4, IssueMatches
  <2> QED
    BY <1>0, <2>1, <2>5, RecordIsMatched
<1>3. CASE DeleteSale(d)
  <2>1. d \in Posted("sale") /\ Retire(d) /\ stock' = Receive(stock, doc[d].qty, doc[d].rate)
    BY <1>3 DEF DeleteSale
  <2>2. /\ stock.exists /\ doc[d].qty \in Nat \ {0}
        /\ doc[d].rate \in Int /\ doc[d].value \in Int
    BY <1>0, <2>1, UndoneFacts
  <2>3. Matching(stock')
    BY <1>0, <2>1, <2>2, ReceiveMatches
  <2> QED
    BY <1>0, <2>1, <2>3, RetireIsMatched
<1>4. CASE PostTransferIn(d)
  <2>1. PICK q \in Amount, r \in Rates :
          stock' = Receive(stock, q, r) /\ Record(d, "transfer in", q, r, Worth(q, r))
    BY <1>4 DEF PostTransferIn
  <2>2. q \in Nat \ {0} /\ r \in Int
    BY <1>0, WorthInInt
  <2>3. Matching(stock')
    BY <1>0, <2>1, <2>2, ReceiveMatches
  <2> QED
    BY <1>0, <2>1, <2>2, <2>3, RecordIsMatched
<1>5. CASE DeleteTransferIn(d)
  <2>1. d \in Posted("transfer in") /\ Retire(d) /\ stock' = ReverseExact(stock, doc[d].qty, doc[d].value, TRUE)
    BY <1>5 DEF DeleteTransferIn
  <2>2. /\ stock.exists /\ doc[d].qty \in Nat \ {0}
        /\ doc[d].rate \in Int /\ doc[d].value \in Int
    BY <1>0, <2>1, UndoneFacts
  <2>3. Matching(stock')
    BY <1>0, <2>1, <2>2, ReverseExactMatches
  <2> QED
    BY <1>0, <2>1, <2>3, RetireIsMatched
<1>6. CASE PostTransferOut(d)
  <2>1. PICK q \in Amount, r \in Rates :
          /\ stock' = IF stock.exists THEN Issue(stock, q)
                      ELSE [Issue(stock, q) EXCEPT !.rate = r]
          /\ Record(d, "transfer out", q, r, Worth(q, r))
    BY <1>6 DEF PostTransferOut
  <2>2. q \in Nat \ {0} /\ r \in Nat /\ Worth(q, r) >= 0
    BY <1>0, WorthInNat
  <2>3. CASE stock.exists
    <3>1. Matching(stock')
      BY <1>0, <2>1, <2>2, <2>3, IssueMatches
    <3> QED
      BY <1>0, <2>1, <2>2, <3>1, RecordIsMatched
  <2>4. CASE ~stock.exists
    <3> DEFINE issued == Issue(stock, q)
    <3>1. issued \in Stock /\ issued.qty = stock.qty - q
      BY <1>0, <2>2, IssueMoves
    <3>2. stock' = [issued EXCEPT !.rate = r]
      BY <2>1, <2>4
    <3> HIDE DEF issued
    <3>3. stock'.qty = -q
      BY <1>0, <2>2, <2>4, <3>1, <3>2 DEF Stock
    <3>4. Matching(stock')
      BY <2>2, <3>3 DEF Matching
    <3> QED
      BY <1>0, <2>1, <2>2, <3>4, RecordIsMatched
  <2> QED
    BY <2>3, <2>4
<1>7. CASE DeleteTransferOut(d)
  <2>1. d \in Posted("transfer out") /\ Retire(d) /\ stock' = RestoreExact(stock, doc[d].qty, doc[d].value)
    BY <1>7 DEF DeleteTransferOut
  <2>2. /\ stock.exists /\ doc[d].qty \in Nat \ {0}
        /\ doc[d].rate \in Int /\ doc[d].value \in Nat
    BY <1>0, <2>1, UndoneFacts
  <2>3. Matching(stock')
    BY <1>0, <2>1, <2>2, RestoreExactMatches
  <2> QED
    BY <1>0, <2>1, <2>3, RetireIsMatched
<1>8. CASE PostOffload(d)
  <2>1. PICK q \in Amount, r \in Rates :
          stock' = Offload(stock, q, Worth(q, r)) /\ Record(d, "offload", q, r, Worth(q, r))
    BY <1>8 DEF PostOffload
  <2>2. q \in Nat \ {0} /\ Worth(q, r) \in Int
    BY <1>0, WorthInInt
  <2>3. Matching(stock')
    BY <1>0, <2>1, <2>2, OffloadMatches
  <2> QED
    BY <1>0, <2>1, <2>2, <2>3, RecordIsMatched
<1>9. CASE DeleteOffload(d)
  <2>1. d \in Posted("offload") /\ Retire(d) /\ stock' = ReverseExact(stock, doc[d].qty, doc[d].value, FALSE)
    BY <1>9 DEF DeleteOffload
  <2>2. /\ stock.exists /\ doc[d].qty \in Nat \ {0}
        /\ doc[d].rate \in Int /\ doc[d].value \in Int
    BY <1>0, <2>1, UndoneFacts
  <2>3. Matching(stock')
    BY <1>0, <2>1, <2>2, ReverseExactMatches
  <2> QED
    BY <1>0, <2>1, <2>3, RetireIsMatched
<1>10. CASE PostProduction(d)
  <2>1. PICK q \in Amount, r \in Rates :
          stock' = Produce(stock, q, r) /\ Record(d, "production", q, r, Worth(q, r))
    BY <1>10 DEF PostProduction
  <2>2. q \in Nat \ {0} /\ r \in Int
    BY <1>0, WorthInInt
  <2>3. Matching(stock')
    BY <1>0, <2>1, <2>2, ProduceMatches
  <2> QED
    BY <1>0, <2>1, <2>2, <2>3, RecordIsMatched
<1>11. CASE DeleteProduction(d)
  <2>1. d \in Posted("production") /\ Retire(d) /\ stock' = ReverseExact(stock, doc[d].qty, doc[d].value, TRUE)
    BY <1>11 DEF DeleteProduction
  <2>2. /\ stock.exists /\ doc[d].qty \in Nat \ {0}
        /\ doc[d].rate \in Int /\ doc[d].value \in Int
    BY <1>0, <2>1, UndoneFacts
  <2>3. Matching(stock')
    BY <1>0, <2>1, <2>2, ReverseExactMatches
  <2> QED
    BY <1>0, <2>1, <2>3, RetireIsMatched
<1>12. CASE PostConsumption(d)
  <2> DEFINE r == IF stock.exists THEN stock.rate ELSE OpeningRate
  <2>1. PICK q \in Amount :
          /\ stock' = Consume(stock, q, OpeningRate)
          /\ Record(d, "consumption", q, r, Worth(q, Magnitude(r)))
    BY <1>12 DEF PostConsumption
  <2>2. q \in Nat \ {0} /\ OpeningRate \in Int /\ Magnitude(r) \in Nat
    BY <1>0 DEF Magnitude
  <2>3. Worth(q, Magnitude(r)) >= 0
    BY <2>2, WorthInNat
  <2>4. Matching(stock')
    BY <1>0, <2>1, <2>2, ConsumeMatches
  <2> HIDE DEF r
  <2> QED
    BY <1>0, <2>1, <2>3, <2>4, RecordIsMatched
<1>13. CASE DeleteConsumption(d)
  <2>1. d \in Posted("consumption") /\ Retire(d) /\ stock' = RestoreExact(stock, doc[d].qty, doc[d].value)
    BY <1>13 DEF DeleteConsumption
  <2>2. /\ stock.exists /\ doc[d].qty \in Nat \ {0}
        /\ doc[d].rate \in Int /\ doc[d].value \in Nat
    BY <1>0, <2>1, UndoneFacts
  <2>3. Matching(stock')
    BY <1>0, <2>1, <2>2, RestoreExactMatches
  <2> QED
    BY <1>0, <2>1, <2>3, RetireIsMatched
<1> QED
  BY <1>1, <1>2, <1>3, <1>4, <1>5, <1>6, <1>7, <1>8, <1>9, <1>10, <1>11, <1>12, <1>13

LEMMA MatchedInitially == Init => MatchedInv
BY DEF Init, NoStock, MatchedInv, WorthKept, Matching

LEMMA MatchedInduction == DocumentedInv /\ MatchedInv /\ [Next]_vars => MatchedInv'
<1> SUFFICES ASSUME DocumentedInv, MatchedInv, [Next]_vars PROVE MatchedInv'
  OBVIOUS
<1>1. CASE Next
  BY <1>1, DocumentedStep, MatchedStep DEF Next
<1>2. CASE UNCHANGED vars
  BY <1>2 DEF vars, MatchedInv, WorthKept
<1> QED
  BY <1>1, <1>2

\* However the documents of all six kinds follow each other, and whatever the
\* scale of the quantities, rate and value of stock on hand never drift apart by
\* more than the rounding of the last write.
THEOREM RateMatchesValueHolds == Spec => []RateMatchesValue
<1>1. DocumentedInv /\ MatchedInv => RateMatchesValue
  <2> SUFFICES ASSUME DocumentedInv, MatchedInv, stock.qty > 0, stock.value # 0
               PROVE  2 * Magnitude(stock.value * Scale - stock.qty * stock.rate) <= Scale + stock.qty
    BY DEF RateMatchesValue
  <2>1. stock.qty \in Int /\ stock.rate \in Int /\ stock.value \in Int /\ Scale \in Int
    BY ScaleAssumption DEF DocumentedInv, TypeOK, Stock
  <2>2. PICK x, y : x = stock.value * Scale /\ y = stock.qty * stock.rate
    OBVIOUS
  <2>3. x \in Int /\ y \in Int
    BY <2>1, <2>2
  <2>4. 2 * (x - y) <= Scale + stock.qty /\ 2 * (y - x) <= Scale + stock.qty
    BY <2>2 DEF MatchedInv, Matching, Near
  <2>5. 2 * Magnitude(x - y) <= Scale + stock.qty
    BY <2>1, <2>3, <2>4 DEF Magnitude
  <2> QED
    BY <2>2, <2>5
<1> QED
  BY <1>1, DocumentedInitially, DocumentedInduction, MatchedInitially, MatchedInduction, PTL
     DEF Spec

-----------------------------------------------------------------------------
(* Unchanged edits *)

WholeInv ==
  /\ WholeRate(stock)
  /\ \A d \in Posted("transfer out") : doc[d].value = doc[d].qty * doc[d].rate

LEMMA WholeWorth ==
  ASSUME Scale = 1, NEW q \in Nat, NEW r \in Nat
  PROVE  Worth(q, r) = q * r
<1>1. q * r \in Nat
  BY ProductInNat
<1> QED
  BY <1>1, WholeIsExact DEF Worth

LEMMA RecordIsWhole ==
  ASSUME KindKnown, WholeInv, NEW d \in Doc, NEW kind, NEW q, NEW r, NEW v,
         Record(d, kind, q, r, v), kind = "transfer out" => v = q * r, WholeRate(stock')
  PROVE  WholeInv'
<1> DEFINE x == [kind |-> kind, qty |-> q, rate |-> r, value |-> v]
<1>1. x.kind = kind /\ x.qty = q /\ x.rate = r /\ x.value = v
  OBVIOUS
<1>2. doc' = [doc EXCEPT ![d] = x]
  BY DEF Record
<1> HIDE DEF x
<1>3. \A e \in Doc : doc'[e] = IF e = d THEN x ELSE doc[e]
  BY <1>2 DEF KindKnown
<1>4. \A e \in Posted("transfer out") : doc[e].value = doc[e].qty * doc[e].rate
  BY DEF WholeInv
<1>5. ASSUME NEW e \in Posted("transfer out")'
      PROVE  doc'[e].value = doc'[e].qty * doc'[e].rate
  <2>1. e \in Doc /\ doc'[e] \notin {NoDoc, Deleted} /\ doc'[e].kind = "transfer out"
    BY <1>5 DEF Posted
  <2>2. CASE e = d
    BY <1>1, <1>3, <2>1, <2>2
  <2>3. CASE e # d
    <3>1. doc'[e] = doc[e]
      BY <1>3, <2>1, <2>3
    <3>2. e \in Posted("transfer out")
      BY <2>1, <3>1 DEF Posted
    <3> QED
      BY <1>4, <3>1, <3>2
  <2> QED
    BY <2>2, <2>3
<1> QED
  BY <1>5 DEF WholeInv, WholeRate

LEMMA RetireIsWhole ==
  ASSUME KindKnown, WholeInv, NEW d \in Doc, Retire(d), WholeRate(stock')
  PROVE  WholeInv'
<1>1. \A e \in Doc : doc'[e] = IF e = d THEN Deleted ELSE doc[e]
  BY DEF Retire, KindKnown
<1>2. \A e \in Posted("transfer out") : doc[e].value = doc[e].qty * doc[e].rate
  BY DEF WholeInv
<1>3. \A e \in Posted("transfer out")' : e \in Posted("transfer out") /\ doc'[e] = doc[e]
  BY <1>1 DEF Posted
<1> QED
  BY <1>2, <1>3 DEF WholeInv, WholeRate

LEMMA WholeStep ==
  ASSUME Scale = 1, KindKnown, Sound, WholeInv, [Next]_vars, HelperWritten'
  PROVE  WholeInv'
<1>0. /\ stock \in SoundStock /\ stock.rate \in Nat /\ WholeRate(stock)
      /\ Amount \subseteq Nat \ {0} /\ Rates \subseteq Nat \ {0}
  BY DocumentAssumption, SoundFacts DEF Sound, WholeInv
<1>1. ASSUME NEW d \in Doc, PostSale(d) PROVE WholeInv'
  <2>1. PICK q \in Amount :
          stock' = Issue(stock, q) /\ Record(d, "sale", q, stock.rate, Worth(q, stock.rate))
    BY <1>1 DEF PostSale
  <2>2. WholeRate(stock')
    BY <1>0, <2>1, IssueKeepsWholeRate
  <2> QED
    BY <2>1, <2>2, RecordIsWhole
<1>2. ASSUME NEW d \in Doc, EditSale(d) PROVE WholeInv'
  <2> DEFINE restored == RestoreSale(stock, doc[d].qty)
  <2>1. PICK q, r, v : q \in Amount /\ stock' = Issue(restored, q) /\ Record(d, "sale", q, r, v)
    BY <1>2 DEF EditSale
  <2>2. restored \in SoundStock
    BY <1>0, <1>2, PostedIsSound, RestoreSaleIsSound DEF EditSale
  <2> HIDE DEF restored
  <2>3. WholeRate(stock')
    BY <1>0, <2>1, <2>2, IssueKeepsWholeRate
  <2> QED
    BY <2>1, <2>3, RecordIsWhole
<1>3. ASSUME NEW d \in Doc, DeleteSale(d) PROVE WholeInv'
  <2>1. WholeRate(stock')
    BY <1>0, <1>3, PostedIsSound, ReceiveKeepsWholeRate DEF DeleteSale
  <2> QED
    BY <1>3, <2>1, RetireIsWhole DEF DeleteSale
<1>4. ASSUME NEW d \in Doc, PostTransferIn(d) PROVE WholeInv'
  <2>1. PICK q \in Amount, r \in Rates :
          stock' = Receive(stock, q, r) /\ Record(d, "transfer in", q, r, Worth(q, r))
    BY <1>4 DEF PostTransferIn
  <2>2. q \in Nat \ {0} /\ r \in Nat
    BY <1>0
  <2>3. WholeRate(stock')
    BY <1>0, <2>1, <2>2, ReceiveKeepsWholeRate
  <2> QED
    BY <2>1, <2>3, RecordIsWhole
<1>5. ASSUME NEW d \in Doc, DeleteTransferIn(d) PROVE WholeInv'
  <2>1. WholeRate(stock')
    BY <1>0, <1>5, PostedIsSound, ReverseExactKeepsWholeRate DEF DeleteTransferIn
  <2> QED
    BY <1>5, <2>1, RetireIsWhole DEF DeleteTransferIn
<1>6. ASSUME NEW d \in Doc, PostTransferOut(d) PROVE WholeInv'
  <2>1. PICK q \in Amount, r \in Rates :
          /\ stock' = IF stock.exists THEN Issue(stock, q)
                      ELSE [Issue(stock, q) EXCEPT !.rate = r]
          /\ Record(d, "transfer out", q, r, Worth(q, r))
    BY <1>6 DEF PostTransferOut
  <2>2. q \in Nat \ {0} /\ r \in Nat /\ Worth(q, r) = q * r
    BY <1>0, WholeWorth
  <2>3. CASE stock.exists
    <3>1. WholeRate(stock')
      BY <1>0, <2>1, <2>2, <2>3, IssueKeepsWholeRate
    <3> QED
      BY <2>1, <2>2, <3>1, RecordIsWhole
  <2>4. CASE ~stock.exists
    <3> DEFINE issued == Issue(stock, q)
    <3>1. stock \in Stock /\ stock.qty = 0
      BY <1>0, <2>4 DEF SoundStock
    <3>2. issued \in Stock /\ issued.qty = -q
      BY <2>2, <3>1, IssueMoves
    <3>3. stock' = [issued EXCEPT !.rate = r]
      BY <2>1, <2>4
    <3> HIDE DEF issued
    <3>4. stock'.qty = -q
      BY <3>2, <3>3 DEF Stock
    <3>5. WholeRate(stock')
      BY <2>2, <3>4 DEF WholeRate
    <3> QED
      BY <2>1, <2>2, <3>5, RecordIsWhole
  <2> QED
    BY <2>3, <2>4
<1>7. ASSUME NEW d \in Doc, DeleteTransferOut(d) PROVE WholeInv'
  <2>1. /\ d \in Posted("transfer out") /\ Retire(d)
        /\ stock' = RestoreExact(stock, doc[d].qty, doc[d].value)
    BY <1>7 DEF DeleteTransferOut
  <2>2. doc[d].value = doc[d].qty * doc[d].rate
    BY <2>1 DEF WholeInv
  <2>3. doc[d].qty \in Nat \ {0} /\ doc[d].rate \in Nat
    BY <2>1, PostedIsSound
  <2>4. WholeRate(stock')
    BY <1>0, <2>1, <2>2, <2>3, RestoreExactKeepsWholeRate
  <2> QED
    BY <2>1, <2>4, RetireIsWhole
<1>8. ASSUME NEW d \in Doc,
             \/ PostOffload(d) \/ PostProduction(d) \/ PostConsumption(d)
             \/ DeleteOffload(d) \/ DeleteProduction(d) \/ DeleteConsumption(d)
      PROVE  FALSE
  BY <1>8, OthersAreOut
<1>9. CASE UNCHANGED vars
  BY <1>9 DEF vars, WholeInv, WholeRate, Posted
<1> QED
  BY <1>1, <1>2, <1>3, <1>4, <1>5, <1>6, <1>7, <1>8, <1>9 DEF Next

WholeUnits == Scale = 1 /\ HelperWritten => WholeInv

LEMMA WholeInduction ==
  ASSUME IndInv, WholeUnits, [Next]_vars
  PROVE  WholeUnits'
<1>1. writers \subseteq writers'
  BY HistoryStep DEF IndInv
<1>2. ASSUME Scale = 1, HelperWritten' PROVE WholeInv'
  <2>1. HelperWritten
    BY <1>1, <1>2 DEF HelperWritten
  <2> QED
    BY <1>2, <2>1, WholeStep DEF IndInv, WholeUnits
<1> QED
  BY <1>2 DEF WholeUnits

LEMMA WholeInitially == Init => WholeUnits
BY DEF Init, NoStock, WholeUnits, WholeInv, WholeRate, Posted

LEMMA UnchangedEdit ==
  ASSUME IndInv, WholeUnits, DocumentedInv, MatchedInv, HelperWritten,
         NEW d \in Doc, EditSale(d), doc' = doc
  PROVE  UnchangedButForACent
<1>0. KindKnown /\ stock \in SoundStock /\ Matching(stock)
  BY DEF IndInv, Sound, MatchedInv
<1>1. PICK q, r, v :
        /\ q \in Amount
        /\ stock' = Issue(RestoreSale(stock, doc[d].qty), q) /\ Record(d, "sale", q, r, v)
  BY DEF EditSale
<1>2. d \in Posted("sale")
  BY DEF EditSale
<1>3. doc[d].qty = q
  <2> DEFINE x == [kind |-> "sale", qty |-> q, rate |-> r, value |-> v]
  <2>1. doc' = [doc EXCEPT ![d] = x]
    BY <1>1 DEF Record
  <2>2. x.qty = q
    OBVIOUS
  <2> HIDE DEF x
  <2>3. doc'[d] = x
    BY <1>0, <2>1 DEF KindKnown
  <2> QED
    BY <2>2, <2>3
<1>4. stock.exists /\ q \in Nat \ {0}
  BY <1>2, <1>3, PostedIsDocumented
<1>5. stock' = Issue(RestoreSale(stock, q), q)
  BY <1>1, <1>3
<1>6. /\ stock'.qty = stock.qty /\ stock'.short = stock.short
      /\ stock.value # 0 => stock'.value - stock.value <= 1 /\ stock.value - stock'.value <= 1
  BY <1>0, <1>4, <1>5, ReissuedSaleIsNear
<1>7. stock.value # 0 => Magnitude(stock'.value - stock.value) <= 1
  <2>1. stock.value \in Int /\ stock'.value \in Int
    <3>1. RestoreSale(stock, q) \in SoundStock
      BY <1>0, <1>4, RestoreSaleIsSound
    <3>2. stock' \in SoundStock
      BY <1>4, <1>5, <3>1, IssueIsSound
    <3> QED
      BY <1>0, <3>2 DEF SoundStock, Stock
  <2> QED
    BY <1>6, <2>1 DEF Magnitude
<1>8. ASSUME Scale = 1 PROVE stock' = stock
  <2>1. WholeRate(stock)
    BY <1>8 DEF WholeUnits, WholeInv
  <2> QED
    BY <1>0, <1>4, <1>5, <1>8, <2>1, ReissuedSaleIsSame
<1>9. ASSUME stock.qty <= 0 PROVE stock' = stock
  BY <1>0, <1>4, <1>5, <1>9, ReissuedSale
<1> QED
  BY <1>6, <1>7, <1>8, <1>9 DEF UnchangedButForACent

\* As long as sales and transfers are the only documents, saving a sale again
\* without changing it gives back its quantity and its layers, whatever the row
\* has been through since, and its value: exactly in whole units and while nothing
\* is on hand, up to a cent at any scale.
THEOREM NoopEditIsNeutralHolds == Spec => NoopEditIsNeutral
<1>1. IndInv /\ WholeUnits /\ [Next]_vars => WholeUnits'
  BY WholeInduction
<1>2. IndInv /\ WholeUnits /\ DocumentedInv /\ MatchedInv /\ [Next]_vars
      => [HelperWritten =>
            \A d \in Doc : (EditSale(d) /\ doc' = doc) => UnchangedButForACent]_vars
  BY UnchangedEdit
<1>3. IndInv /\ [Next]_vars => IndInv'
  BY Induction
<1> QED
  BY <1>1, <1>2, <1>3, Initially, WholeInitially, DocumentedInitially, DocumentedInduction,
     MatchedInitially, MatchedInduction, PTL
     DEF Spec, NoopEditIsNeutral

=============================================================================
