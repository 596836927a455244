---------------------------- MODULE LibraryProofs ----------------------------
(***************************************************************************)
(* The Library Manager's files for any number of requests, records, paths  *)
(* and failures, with the trash on the media's file system or on another:  *)
(* whatever lies in the trash has its record, what the trash lists can be  *)
(* restored, and no file is lost.                                          *)
(***************************************************************************)
EXTENDS Library, SequenceTheorems, TLAPS

-----------------------------------------------------------------------------
(* The orders in which files are moved.                                    *)

One(k) == <<k>>
Two(k, l) == <<k, l>>

LEMMA OneInOrder ==
  ASSUME NEW k
  PROVE  /\ ToSet(One(k)) = {k} /\ Head(One(k)) = k /\ Tail(One(k)) = <<>>
         /\ Reverse(One(k)) = One(k) /\ One(k) # <<>>
  BY DEF ToSet, Reverse, One

LEMMA TwoInOrder ==
  ASSUME NEW k, NEW l
  PROVE  /\ ToSet(Two(k, l)) = {k, l} /\ Head(Two(k, l)) = k /\ Tail(Two(k, l)) = One(l)
         /\ Reverse(Two(k, l)) = Two(l, k) /\ Two(k, l) # <<>> /\ Append(One(k), l) = Two(k, l)
  <1> DEFINE s == <<k, l>>
  <1>1. DOMAIN s = 1 .. 2 /\ s[1] = k /\ s[2] = l /\ Len(s) = 2
    OBVIOUS
  <1>2. ToSet(s) = {k, l}
    BY <1>1 DEF ToSet
  <1>3. Head(s) = k /\ Tail(s) = <<l>> /\ s # <<>>
    OBVIOUS
  <1>4. Reverse(s) = <<l, k>>
    BY <1>1 DEF Reverse
  <1>5. Append(<<k>>, l) = s
    <2> DEFINE S == {k, l}
    <2>1. <<k>> \in Seq(S) /\ s \in Seq(S) /\ l \in S
      OBVIOUS
    <2>2. /\ Append(<<k>>, l) \in Seq(S) /\ Len(Append(<<k>>, l)) = 2
          /\ Append(<<k>>, l)[1] = k /\ Append(<<k>>, l)[2] = l
      BY <2>1, AppendProperties
    <2>3. \A i \in 1 .. Len(Append(<<k>>, l)) : Append(<<k>>, l)[i] = s[i]
      BY <1>1, <2>2
    <2> QED BY <1>1, <2>1, <2>2, <2>3, SeqEqual
  <1> QED BY <1>2, <1>3, <1>4, <1>5 DEF One, Two

LEMMA OrdersEmpty == <<>> \in Orders /\ ToSet(<<>>) = {} /\ Reverse(<<>>) = <<>>
  BY DEF Orders, ToSet, Reverse

LEMMA OrdersAre ==
  ASSUME NEW s \in Orders
  PROVE  \/ s = <<>>
         \/ \E k \in Kinds : s = One(k)
         \/ \E k, l \in Kinds : k # l /\ s = Two(k, l)
  BY DEF Orders, Kinds, One, Two

LEMMA OrdersHold ==
  ASSUME NEW k \in Kinds, NEW l \in Kinds
  PROVE  One(k) \in Orders /\ (k # l => Two(k, l) \in Orders)
  BY DEF Orders, Kinds, One, Two

LEMMA OrdersFirst ==
  ASSUME NEW s \in Orders, s # <<>>
  PROVE  /\ Head(s) \in Kinds /\ Head(s) \in ToSet(s)
         /\ Tail(s) \in Orders /\ ToSet(Tail(s)) = ToSet(s) \ {Head(s)}
  <1>1. CASE \E k \in Kinds : s = One(k)
    <2>1. PICK k \in Kinds : s = One(k)
      BY <1>1
    <2> QED BY <2>1, OneInOrder, OrdersEmpty
  <1>2. CASE \E k, l \in Kinds : k # l /\ s = Two(k, l)
    <2>1. PICK k \in Kinds, l \in Kinds : k # l /\ s = Two(k, l)
      BY <1>2
    <2>2. /\ Head(s) = k /\ Tail(s) = One(l) /\ ToSet(s) = {k, l}
          /\ ToSet(One(l)) = {l}
      BY <2>1, OneInOrder, TwoInOrder
    <2> QED BY <2>1, <2>2, OrdersHold
  <1> QED BY <1>1, <1>2, OrdersAre

LEMMA OrdersKinds ==
  ASSUME NEW s \in Orders
  PROVE  ToSet(s) \subseteq Kinds
  BY OrdersAre, OneInOrder, TwoInOrder, OrdersEmpty

LEMMA OrdersLast ==
  ASSUME NEW s \in Orders, NEW k \in Kinds, k \notin ToSet(s)
  PROVE  Append(s, k) \in Orders /\ ToSet(Append(s, k)) = ToSet(s) \cup {k}
  <1>1. CASE s = <<>>
    <2>1. Append(s, k) = One(k)
      BY <1>1 DEF One
    <2> QED BY <1>1, <2>1, OrdersEmpty, OneInOrder, OrdersHold
  <1>2. CASE \E l \in Kinds : s = One(l)
    <2>1. PICK l \in Kinds : s = One(l)
      BY <1>2
    <2>2. Append(s, k) = Two(l, k) /\ l # k
      BY <2>1, OneInOrder, TwoInOrder
    <2> QED BY <2>1, <2>2, OneInOrder, TwoInOrder, OrdersHold
  <1>3. CASE \E l, m \in Kinds : l # m /\ s = Two(l, m)
    BY <1>3, TwoInOrder DEF Kinds
  <1> QED BY <1>1, <1>2, <1>3, OrdersAre

LEMMA OrdersBack ==
  ASSUME NEW s \in Orders
  PROVE  Reverse(s) \in Orders /\ ToSet(Reverse(s)) = ToSet(s)
  <1>1. CASE \E l, m \in Kinds : l # m /\ s = Two(l, m)
    <2>1. PICK l \in Kinds, m \in Kinds : l # m /\ s = Two(l, m)
      BY <1>1
    <2>2. Reverse(s) = Two(m, l) /\ ToSet(s) = {l, m} /\ ToSet(Two(m, l)) = {m, l}
      BY <2>1, TwoInOrder
    <2> QED BY <2>1, <2>2, OrdersHold
  <1>2. CASE \E l \in Kinds : s = One(l)
    BY <1>2, OneInOrder, OrdersHold
  <1> QED BY <1>1, <1>2, OrdersAre, OrdersEmpty

LEMMA OrdersAll ==
  ASSUME NEW kinds \in SUBSET Kinds
  PROVE  InOrder(kinds) \in Orders /\ ToSet(InOrder(kinds)) = kinds
  <1> DEFINE one == One("source")  two == One("output")
  <1>0. /\ one \in Seq(Kinds) /\ two \in Seq(Kinds) /\ <<>> \in Seq(Kinds)
        /\ "source" \in Kinds /\ "output" \in Kinds
    BY DEF Kinds, One
  <1>1. CASE "source" \in kinds /\ "output" \in kinds
    <2>1. InOrder(kinds) = one \o two
      BY <1>1 DEF InOrder, One
    <2>2. one \o two = Append(one, "output")
      BY <1>0, AppendIsConcat DEF One
    <2>3. Append(one, "output") = Two("source", "output")
      BY TwoInOrder
    <2>4. kinds = {"source", "output"}
      BY <1>1 DEF Kinds
    <2>5. InOrder(kinds) = Two("source", "output")
      BY <2>1, <2>2, <2>3
    <2> QED BY <1>0, <2>4, <2>5, TwoInOrder, OrdersHold
  <1>2. CASE "source" \in kinds /\ "output" \notin kinds
    <2>1. InOrder(kinds) = one \o <<>>
      BY <1>2 DEF InOrder, One
    <2>2. one \o <<>> = one
      BY <1>0, ConcatEmptySeq
    <2>3. kinds = {"source"}
      BY <1>2 DEF Kinds
    <2> QED BY <1>0, <2>3, <2>1, <2>2, OneInOrder, OrdersHold
  <1>3. CASE "source" \notin kinds /\ "output" \in kinds
    <2>1. InOrder(kinds) = <<>> \o two
      BY <1>3 DEF InOrder, One
    <2>2. <<>> \o two = two
      BY <1>0, ConcatEmptySeq
    <2>3. kinds = {"output"}
      BY <1>3 DEF Kinds
    <2> QED BY <1>0, <2>3, <2>1, <2>2, OneInOrder, OrdersHold
  <1>4. CASE "source" \notin kinds /\ "output" \notin kinds
    <2>1. InOrder(kinds) = <<>> \o <<>>
      BY <1>4 DEF InOrder
    <2>2. <<>> \o <<>> = <<>>
      BY <1>0, ConcatEmptySeq
    <2> QED BY <1>4, <2>1, <2>2, OrdersEmpty DEF Kinds
  <1> QED BY <1>1, <1>2, <1>3, <1>4

-----------------------------------------------------------------------------
(* What one step makes of a request.                                       *)

LEMMA BeginIs ==
  ASSUME NEW own \in RequestTypes
  PROVE  /\ Begin(own) \in RequestTypes
         /\ Begin(own) = [own EXCEPT !.pc = IF Forward(own) THEN "move" ELSE "check"]
  BY DEF Begin, RequestTypes, Pcs, Forward, Removes

LEMMA MovedIs ==
  ASSUME NEW own \in RequestTypes, own.todo # <<>>, Head(own.todo) \notin ToSet(own.moved) \/ own.undo
  PROVE  LET r == Moved(own)
         IN  /\ r \in RequestTypes
             /\ r.op = own.op /\ r.id = own.id /\ r.kinds = own.kinds /\ r.row = own.row
             /\ r.to = own.to /\ r.undo = own.undo /\ r.todo = Tail(own.todo)
             /\ r.moved = IF own.undo THEN own.moved ELSE Append(own.moved, Head(own.todo))
             /\ r.dst = Nowhere
             /\ r.pc = IF Tail(own.todo) # <<>> THEN IF Forward(own) THEN "move" ELSE "check"
                      ELSE IF own.undo THEN "mark" ELSE "commit"
  <1> DEFINE rest == Tail(own.todo)
             done == IF own.undo THEN own.moved ELSE Append(own.moved, Head(own.todo))
             n1 == [own EXCEPT !.todo = rest]
             n2 == [n1 EXCEPT !.dst = Nowhere]
             n3 == [n2 EXCEPT !.got = "none"]
             n4 == [n3 EXCEPT !.moved = done]
             end == IF own.undo THEN "mark" ELSE "commit"
  <1>1. own.todo \in Orders /\ own.moved \in Orders
    BY DEF RequestTypes
  <1>2. rest \in Orders /\ done \in Orders
    BY <1>1, OrdersFirst, OrdersLast
  <1> HIDE DEF rest, done
  <1>3. n1 \in RequestTypes
    BY <1>2 DEF RequestTypes
  <1>4. n2 \in RequestTypes
    BY <1>3 DEF RequestTypes
  <1>5. n3 \in RequestTypes
    BY <1>4 DEF RequestTypes
  <1>6. n4 \in RequestTypes
    BY <1>5, <1>2 DEF RequestTypes
  <1>7. /\ n4.op = own.op /\ n4.id = own.id /\ n4.kinds = own.kinds /\ n4.row = own.row
        /\ n4.to = own.to /\ n4.undo = own.undo /\ n4.todo = rest /\ n4.moved = done
        /\ n4.dst = Nowhere
    BY DEF RequestTypes
  <1>8. [own EXCEPT !.todo = rest, !.dst = Nowhere, !.got = "none",
                    !.moved = IF own.undo THEN @ ELSE Append(@, Head(own.todo))] = n4
    BY DEF RequestTypes, done
  <1>9. Moved(own) = IF rest # <<>> THEN Begin(n4) ELSE [n4 EXCEPT !.pc = end]
    BY <1>8, Zenon DEF Moved, rest
  <1>10. PICK n \in RequestTypes : n = n4
    BY <1>6
  <1>11. PICK pc \in Pcs :
           /\ Moved(own) = [n EXCEPT !.pc = pc]
           /\ pc = IF rest # <<>> THEN IF Forward(own) THEN "move" ELSE "check"
                   ELSE IF own.undo THEN "mark" ELSE "commit"
    <2>1. CASE rest # <<>>
      BY <1>7, <1>9, <1>10, <2>1, BeginIs DEF Forward, Removes, Pcs
    <2>2. CASE rest = <<>>
      BY <1>9, <1>10, <2>2 DEF Pcs
    <2> QED BY <2>1, <2>2
  <1>12. PICK r \in RequestTypes : r = [n EXCEPT !.pc = pc]
    BY DEF RequestTypes
  <1>13. /\ r.pc = pc /\ r.op = own.op /\ r.id = own.id /\ r.kinds = own.kinds
         /\ r.row = own.row /\ r.to = own.to /\ r.undo = own.undo /\ r.todo = rest
         /\ r.moved = done /\ r.dst = Nowhere
    BY <1>7, <1>10, <1>12 DEF RequestTypes
  <1> QED BY <1>11, <1>12, <1>13 DEF rest, done

LEMMA NotMovedIs ==
  ASSUME NEW own \in RequestTypes, own.op # "rename", own.undo => own.todo # <<>>
  PROVE  LET r == NotMoved(own)
             todo == IF own.undo THEN Tail(own.todo) ELSE Reverse(own.moved)
         IN  /\ r \in RequestTypes
             /\ r.op = own.op /\ r.id = own.id /\ r.kinds = own.kinds /\ r.row = own.row
             /\ r.to = own.to /\ r.undo = TRUE /\ r.todo = todo
             /\ r.moved = own.moved /\ r.dst = Nowhere
             /\ r.pc = IF todo = <<>> THEN "mark" ELSE "check"
  <1> DEFINE todo == IF own.undo THEN Tail(own.todo) ELSE Reverse(own.moved)
             n1 == [own EXCEPT !.todo = todo]
             n2 == [n1 EXCEPT !.undo = TRUE]
             n3 == [n2 EXCEPT !.dst = Nowhere]
             n4 == [n3 EXCEPT !.got = "none"]
  <1>1. own.todo \in Orders /\ own.moved \in Orders
    BY DEF RequestTypes
  <1>2. todo \in Orders
    BY <1>1, OrdersFirst, OrdersBack
  <1> HIDE DEF todo
  <1>3. n1 \in RequestTypes
    BY <1>2 DEF RequestTypes
  <1>4. n2 \in RequestTypes
    BY <1>3 DEF RequestTypes
  <1>5. n3 \in RequestTypes
    BY <1>4 DEF RequestTypes
  <1>6. n4 \in RequestTypes
    BY <1>5 DEF RequestTypes
  <1>7. /\ n4.op = own.op /\ n4.id = own.id /\ n4.kinds = own.kinds /\ n4.row = own.row
        /\ n4.to = own.to /\ n4.undo = TRUE /\ n4.todo = todo /\ n4.moved = own.moved
        /\ n4.dst = Nowhere
    BY DEF RequestTypes
  <1>8. [own EXCEPT !.todo = todo, !.undo = TRUE, !.dst = Nowhere, !.got = "none"] = n4
    BY DEF RequestTypes
  <1>9. NotMoved(own) = IF todo = <<>> THEN [n4 EXCEPT !.pc = "mark"] ELSE Begin(n4)
    BY <1>8, Zenon DEF NotMoved, todo
  <1>10. PICK n \in RequestTypes : n = n4
    BY <1>6
  <1>11. PICK pc \in Pcs : NotMoved(own) = [n EXCEPT !.pc = pc]
                          /\ pc = IF todo = <<>> THEN "mark" ELSE "check"
    <2>1. CASE todo # <<>>
      BY <1>7, <1>9, <1>10, <2>1, BeginIs DEF Forward, Removes, Pcs
    <2>2. CASE todo = <<>>
      BY <1>9, <1>10, <2>2 DEF Pcs
    <2> QED BY <2>1, <2>2
  <1>12. PICK r \in RequestTypes : r = [n EXCEPT !.pc = pc]
    BY DEF RequestTypes
  <1>13. /\ r.pc = pc /\ r.op = own.op /\ r.id = own.id /\ r.kinds = own.kinds
         /\ r.row = own.row /\ r.to = own.to /\ r.undo = TRUE /\ r.todo = todo
         /\ r.moved = own.moved /\ r.dst = Nowhere
    BY <1>7, <1>10, <1>12 DEF RequestTypes
  <1> QED BY <1>11, <1>12, <1>13 DEF todo

LEMMA MovedShape ==
  ASSUME NEW own \in RequestTypes, InShape(own), own.pc \in {"move", "unlink"}
  PROVE  /\ own.todo # <<>> /\ (~own.undo => Head(own.todo) \notin ToSet(own.moved))
         /\ InShape(Moved(own))
  <1>1. own.todo # <<>> /\ own.undo \in BOOLEAN /\ own.todo \in Orders /\ own.moved \in Orders
    BY DEF InShape, Moving, RequestTypes
  <1>2. ~own.undo => Head(own.todo) \notin ToSet(own.moved)
    BY <1>1, OrdersFirst DEF InShape
  <1>3. PICK r \in RequestTypes : r = Moved(own)
    BY <1>1, <1>2, MovedIs
  <1>4. /\ r.op = own.op /\ r.id = own.id /\ r.kinds = own.kinds /\ r.row = own.row
        /\ r.to = own.to /\ r.undo = own.undo /\ r.todo = Tail(own.todo)
        /\ r.moved = IF own.undo THEN own.moved ELSE Append(own.moved, Head(own.todo))
        /\ r.pc = IF Tail(own.todo) # <<>> THEN IF Forward(own) THEN "move" ELSE "check"
                  ELSE IF own.undo THEN "mark" ELSE "commit"
    BY <1>1, <1>2, <1>3, MovedIs
  <1>5. /\ Head(own.todo) \in ToSet(own.todo)
        /\ ToSet(Tail(own.todo)) = ToSet(own.todo) \ {Head(own.todo)}
        /\ ~own.undo => ToSet(r.moved) = ToSet(own.moved) \cup {Head(own.todo)}
    BY <1>1, <1>2, <1>4, OrdersFirst, OrdersLast
  <1>6. /\ r.pc # "idle" /\ own.op # "none" /\ own.row \in Rows
        /\ r.pc \notin {"copying", "unlink", "purge", "complete"}
    BY <1>4 DEF InShape
  <1>7. own.op = "rename" => Tail(own.todo) = <<>>
    <2>1. own.op = "rename" => ToSet(own.todo) \subseteq {"source"}
      BY DEF InShape
    <2>2. own.op = "rename" => ToSet(Tail(own.todo)) = {}
      BY <2>1, <1>5
    <2>3. Tail(own.todo) \in Orders
      BY <1>1, OrdersFirst
    <2> QED BY <2>2, <2>3, OrdersFirst
  <1>8. /\ own.op = "rename" => own.kinds = {"source"} /\ own.to \in Paths /\ ~own.undo
        /\ own.op \in {"trash", "delete", "restore"} => own.id \in Ids
        /\ IF own.undo THEN ToSet(own.todo) \subseteq own.kinds
           ELSE /\ ToSet(own.todo) \cap ToSet(own.moved) = {}
                /\ ToSet(own.todo) \cup ToSet(own.moved) = own.kinds
    BY DEF InShape
  <1>9. Forward(r) <=> Forward(own)
    BY <1>4 DEF Forward, Removes
  <1>10. Moving(r) <=> r.todo # <<>>
    BY <1>4, <1>6 DEF Moving
  <1>11. IF r.undo THEN ToSet(r.todo) \subseteq r.kinds
         ELSE /\ ToSet(r.todo) \cap ToSet(r.moved) = {}
              /\ ToSet(r.todo) \cup ToSet(r.moved) = r.kinds
    BY <1>4, <1>5, <1>8
  <1>12. InShape(r)
    BY <1>4, <1>6, <1>7, <1>8, <1>9, <1>10, <1>11 DEF InShape
  <1> QED BY <1>1, <1>2, <1>3, <1>12

LEMMA NotMovedShape ==
  ASSUME NEW own \in RequestTypes, InShape(own), Moving(own) \/ own.pc = "commit",
         own.op # "rename"
  PROVE  (own.undo => own.todo # <<>>) /\ InShape(NotMoved(own))
  <1>1. /\ own.undo \in BOOLEAN /\ own.todo \in Orders /\ own.moved \in Orders
        /\ own.undo => own.todo # <<>>
    BY DEF InShape, Moving, RequestTypes
  <1> DEFINE todo == IF own.undo THEN Tail(own.todo) ELSE Reverse(own.moved)
  <1>2. PICK r \in RequestTypes : r = NotMoved(own)
    BY <1>1, NotMovedIs
  <1>3. /\ r.op = own.op /\ r.id = own.id /\ r.kinds = own.kinds /\ r.row = own.row
        /\ r.to = own.to /\ r.undo = TRUE /\ r.todo = todo
        /\ r.moved = own.moved /\ r.pc = IF todo = <<>> THEN "mark" ELSE "check"
    BY <1>1, <1>2, NotMovedIs
  <1>4. own.op # "none" /\ own.row \in Rows
    BY DEF InShape, Moving
  <1>5. ToSet(todo) \subseteq own.kinds
    <2>1. CASE own.undo
      BY <1>1, <2>1, OrdersFirst DEF InShape
    <2>2. CASE ~own.undo
      BY <1>1, <2>2, OrdersBack DEF InShape
    <2> QED BY <2>1, <2>2
  <1>6. own.op \in {"trash", "delete", "restore"} => own.id \in Ids
    BY DEF InShape
  <1>7. Moving(r) <=> r.todo # <<>>
    BY <1>3 DEF Moving
  <1>8. ~Forward(r)
    BY <1>3 DEF Forward
  <1>9. InShape(r)
    BY <1>3, <1>4, <1>5, <1>6, <1>7, <1>8 DEF InShape
  <1> QED BY <1>1, <1>2, <1>9

LEMMA IdleShape == IdleHandler \in RequestTypes /\ InShape(IdleHandler)
  <1>1. IdleHandler \in RequestTypes
    BY OrdersEmpty DEF IdleHandler, RequestTypes, Pcs, Ops, NoRow
  <1>2. InShape(IdleHandler)
    BY OrdersEmpty DEF InShape, IdleHandler, Moving, Forward, Removes
  <1> QED BY <1>1, <1>2

-----------------------------------------------------------------------------
(* The places of files.                                                    *)

LEMMA HomesAre ==
  ASSUME NEW k \in Kinds, NEW p \in Paths
  PROVE  Home(k, p) \in Places /\ Home(k, p) \notin Stashes /\ KindOf(Home(k, p)) = k
  BY LibraryAssumption DEF Home, Places, Stashes, Stash, Kinds, KindOf

LEMMA StashesAre ==
  ASSUME NEW i \in Ids, NEW k \in Kinds
  PROVE  Stash(i, k) \in Places /\ Stash(i, k) \in Stashes /\ KindOf(Stash(i, k)) = k
  BY DEF Stash, Places, Stashes, KindOf

LEMMA StashesDiffer ==
  ASSUME NEW i, NEW k, NEW j, NEW l, Stash(i, k) = Stash(j, l)
  PROVE  i = j /\ k = l
  BY DEF Stash

LEMMA PlacesAre ==
  ASSUME NEW place \in Places
  PROVE  \/ \E k \in Kinds, p \in Paths \cup {"compiled"} : place = Home(k, p)
         \/ \E i \in Ids, k \in Kinds : place = Stash(i, k)
  BY DEF Places, Stashes, Stash, Home, Kinds

\* A file on its way into the trash.
Stashing(own) == (own.op = "restore") = own.undo

LEMMA EndsAre ==
  ASSUME NEW own \in RequestTypes, InShape(own), Moving(own), NEW records,
         own.op = "restore" => records[own.id].path \in Paths
  PROVE  LET kind == Head(own.todo)
             src  == EndsOf(own, records).src
             dst  == EndsOf(own, records).dst
             path == IF own.op = "restore" THEN records[own.id].path ELSE own.row.path
         IN  /\ kind \in Kinds /\ kind \in ToSet(own.todo) /\ kind \in own.kinds
             /\ path \in Paths
             /\ src \in Places /\ dst \in Places
             /\ KindOf(src) = kind /\ KindOf(dst) = kind
             /\ own.op = "rename" => /\ kind = "source" /\ src = Home("source", path)
                                     /\ dst = Home("source", own.to) /\ own.to \in Paths
             /\ own.op # "rename" /\ Stashing(own) =>
                  src = Home(kind, path) /\ dst = Stash(own.id, kind) /\ own.id \in Ids
             /\ ~Stashing(own) =>
                  /\ src = Stash(own.id, kind) /\ dst = Home(kind, path) /\ own.id \in Ids
                  /\ own.op # "rename"
  <1> DEFINE kind == Head(own.todo)
             src  == EndsOf(own, records).src
             dst  == EndsOf(own, records).dst
             path == IF own.op = "restore" THEN records[own.id].path ELSE own.row.path
  <1>1. /\ own.todo \in Orders /\ own.todo # <<>> /\ own.undo \in BOOLEAN /\ own.row \in Rows
        /\ own.op \in Ops
    BY DEF InShape, Moving, RequestTypes
  <1>2. kind \in Kinds /\ kind \in ToSet(own.todo)
    BY <1>1, OrdersFirst
  <1>3. kind \in own.kinds
    BY <1>2 DEF InShape
  <1>4. path \in Paths
    BY <1>1 DEF Rows
  <1>5. /\ own.op = "rename" => own.to \in Paths /\ ~own.undo /\ own.kinds = {"source"}
        /\ own.op # "rename" => own.id \in Ids
    BY <1>1 DEF InShape, Ops
  <1>6. EndsOf(own, records) =
          LET away == IF own.op = "rename" THEN Home(kind, own.to) ELSE Stash(own.id, kind)
              home == Home(kind, path)
          IN  IF Stashing(own) THEN [src |-> home, dst |-> away] ELSE [src |-> away, dst |-> home]
    BY DEF EndsOf, Stashing
  <1>7. own.op = "rename" => Stashing(own)
    BY <1>5, <1>1 DEF Stashing
  <1>8. CASE own.op = "rename"
    BY <1>2, <1>3, <1>4, <1>5, <1>6, <1>7, <1>8, HomesAre
  <1>9. CASE own.op # "rename"
    BY <1>2, <1>3, <1>4, <1>5, <1>6, <1>9, HomesAre, StashesAre
  <1> QED BY <1>8, <1>9

-----------------------------------------------------------------------------
(* The first part of the invariant: requests and records.                  *)

ControlInv ==
  /\ LibraryTypes
  /\ \A h \in Handlers : InShape(handler[h])
  /\ \A h \in Handlers : Recorded(h)
  /\ MadeAlone

\* A request that another's step leaves alone, except for the file it writes.
Alike(a, b) ==
  /\ b.pc = a.pc /\ b.op = a.op /\ b.id = a.id /\ b.kinds = a.kinds /\ b.row = a.row
  /\ b.to = a.to /\ b.todo = a.todo /\ b.moved = a.moved /\ b.undo = a.undo /\ b.got = a.got
  /\ a.pc = "copying" \/ b.dst = a.dst

Turns(h, r) ==
  /\ handler' \in [Handlers -> RequestTypes]
  /\ handler'[h] = r
  /\ \A g \in Handlers \ {h} : Alike(handler[g], handler'[g])

LEMMA OneTurns ==
  ASSUME LibraryTypes, NEW h \in Handlers, NEW r \in RequestTypes,
         handler' = [handler EXCEPT ![h] = r]
  PROVE  Turns(h, r) /\ \A g \in Handlers \ {h} : handler'[g] = handler[g]
  BY DEF LibraryTypes, Turns, Alike

FollowDst(own, src, dst) ==
  IF own.pc = "copying" /\ own.dst \in {src, dst}
  THEN IF own.dst = src THEN dst ELSE Nowhere ELSE own.dst

LEMMA FollowTurns ==
  ASSUME LibraryTypes, NEW h \in Handlers, NEW r \in RequestTypes, r.pc # "copying",
         NEW src \in Places, NEW dst \in Places \cup {Nowhere},
         handler' = Follow([handler EXCEPT ![h] = r], src, dst)
  PROVE  /\ Turns(h, r)
         /\ \A g \in Handlers \ {h} : handler'[g].dst = FollowDst(handler[g], src, dst)
  <1>1. handler \in [Handlers -> RequestTypes]
    BY DEF LibraryTypes
  <1> DEFINE mid == [handler EXCEPT ![h] = r]
  <1>2. mid \in [Handlers -> RequestTypes] /\ mid[h] = r
    BY <1>1
  <1>3. \A g \in Handlers : LET own == mid[g]
                                to == IF own.dst = src THEN dst ELSE Nowhere
                            IN  handler'[g] = IF own.pc = "copying" /\ own.dst \in {src, dst}
                                              THEN [own EXCEPT !.dst = to] ELSE own
    BY DEF Follow
  <1>4. DOMAIN handler' = Handlers /\ handler' = [g \in Handlers |-> handler'[g]]
    BY DEF Follow
  <1>5. \A g \in Handlers : LET own == mid[g]
                            IN  /\ handler'[g] \in RequestTypes /\ Alike(own, handler'[g])
                                /\ handler'[g].dst = FollowDst(own, src, dst)
                                /\ own.pc # "copying" => handler'[g] = own
    <2> SUFFICES ASSUME NEW g \in Handlers
                 PROVE  LET own == mid[g]
                        IN  /\ handler'[g] \in RequestTypes /\ Alike(own, handler'[g])
                            /\ handler'[g].dst = FollowDst(own, src, dst)
                            /\ own.pc # "copying" => handler'[g] = own
      OBVIOUS
    <2>1. PICK own \in RequestTypes : own = mid[g]
      BY <1>2
    <2>2. PICK to \in Places \cup {Nowhere} : to = IF own.dst = src THEN dst ELSE Nowhere
      OBVIOUS
    <2>3. handler'[g] = IF own.pc = "copying" /\ own.dst \in {src, dst}
                        THEN [own EXCEPT !.dst = to] ELSE own
      BY <1>3, <2>1, <2>2
    <2>4. PICK n \in RequestTypes : n = [own EXCEPT !.dst = to]
      BY DEF RequestTypes
    <2>5. Alike(own, n) \/ own.pc # "copying"
      BY <2>4 DEF RequestTypes, Alike
    <2>6. n.dst = to
      BY <2>4 DEF RequestTypes
    <2>7. Alike(own, own)
      BY DEF Alike
    <2> QED BY <2>1, <2>2, <2>3, <2>4, <2>5, <2>6, <2>7 DEF FollowDst
  <1>6. handler' \in [Handlers -> RequestTypes]
    BY <1>4, <1>5
  <1>7. \A g \in Handlers \ {h} : mid[g] = handler[g]
    BY <1>1
  <1>8. handler'[h] = r
    BY <1>2, <1>5
  <1> QED BY <1>5, <1>6, <1>7, <1>8 DEF Turns

LEMMA PublishTurns ==
  ASSUME LibraryTypes, NEW src \in Places, handler' = Follow(handler, src, Nowhere)
  PROVE  /\ handler' \in [Handlers -> RequestTypes]
         /\ \A g \in Handlers : /\ Alike(handler[g], handler'[g])
                                /\ handler'[g].dst = FollowDst(handler[g], src, Nowhere)
  <1>1. handler \in [Handlers -> RequestTypes]
    BY DEF LibraryTypes
  <1>2. \A g \in Handlers : handler'[g] = IF handler[g].pc = "copying" /\ handler[g].dst \in {src, Nowhere}
                                          THEN [handler[g] EXCEPT !.dst = Nowhere] ELSE handler[g]
    BY <1>1 DEF Follow
  <1>4. DOMAIN handler' = Handlers /\ handler' = [g \in Handlers |-> handler'[g]]
    BY DEF Follow
  <1>5. \A g \in Handlers : /\ handler'[g] \in RequestTypes /\ Alike(handler[g], handler'[g])
                            /\ handler'[g].dst = FollowDst(handler[g], src, Nowhere)
    <2> SUFFICES ASSUME NEW g \in Handlers
                 PROVE  /\ handler'[g] \in RequestTypes /\ Alike(handler[g], handler'[g])
                        /\ handler'[g].dst = FollowDst(handler[g], src, Nowhere)
      OBVIOUS
    <2>1. PICK own \in RequestTypes : own = handler[g]
      BY <1>1
    <2>3. handler'[g] = IF own.pc = "copying" /\ own.dst \in {src, Nowhere}
                        THEN [own EXCEPT !.dst = Nowhere] ELSE own
      BY <1>2, <2>1
    <2>4. PICK n \in RequestTypes : n = [own EXCEPT !.dst = Nowhere]
      BY DEF RequestTypes
    <2>5. Alike(own, n) \/ own.pc # "copying"
      BY <2>4 DEF RequestTypes, Alike
    <2>6. n.dst = Nowhere
      BY <2>4 DEF RequestTypes
    <2>7. Alike(own, own)
      BY DEF Alike
    <2> QED BY <2>1, <2>3, <2>4, <2>5, <2>6, <2>7 DEF FollowDst
  <1> QED BY <1>4, <1>5

LEMMA AlikeShape ==
  ASSUME NEW a \in RequestTypes, NEW b \in RequestTypes, InShape(a), Alike(a, b)
  PROVE  InShape(b)
  BY DEF InShape, Alike, Moving, Forward, Removes

LEMMA AlikeRecorded ==
  ASSUME NEW a, NEW b, Alike(a, b), NEW its, RecordedAs(a, its)
  PROVE  RecordedAs(b, its)
  BY DEF RecordedAs, Alike, Removes

\* A step after which a request goes on with its record, or has none.
GoesOn(own, r) ==
  \/ /\ r.op = own.op /\ r.id = own.id /\ r.kinds = own.kinds
     /\ r.pc \in {"purge", "complete"} <=> own.pc \in {"purge", "complete"}
  \/ r.op \in {"none", "rename"}

LEMMA ControlStays ==
  ASSUME ControlInv, NEW h \in Handlers, NEW r \in RequestTypes, InShape(r), Turns(h, r),
         GoesOn(handler[h], r), rec' = rec, row' \in Rows, files' \in [Places -> Contents],
         crossed' \in BOOLEAN
  PROVE  ControlInv'
  <1>1. LibraryTypes'
    BY DEF ControlInv, LibraryTypes, Turns
  <1>2. \A g \in Handlers \ {h} : Alike(handler[g], handler'[g])
    BY DEF Turns
  <1>3. handler \in [Handlers -> RequestTypes] /\ handler' \in [Handlers -> RequestTypes]
        /\ handler'[h] = r
    BY DEF ControlInv, LibraryTypes, Turns
  <1>4. \A g \in Handlers : InShape(handler'[g])
    BY <1>2, <1>3, AlikeShape DEF ControlInv
  <1>5. \A g \in Handlers : Recorded(g)'
    <2> SUFFICES ASSUME NEW g \in Handlers, handler'[g].op \in {"trash", "delete", "restore"}
                 PROVE  RecordedAs(handler'[g], rec[handler'[g].id])
      BY DEF Recorded
    <2>1. CASE g = h
      <3>1. /\ r.op = handler[h].op /\ r.id = handler[h].id /\ r.kinds = handler[h].kinds
            /\ r.pc \in {"purge", "complete"} <=> handler[h].pc \in {"purge", "complete"}
        BY <1>3, <2>1 DEF GoesOn
      <3>2. RecordedAs(handler[h], rec[handler[h].id])
        BY <3>1, <2>1, <1>3 DEF ControlInv, Recorded
      <3> QED BY <3>1, <3>2, <2>1, <1>3 DEF RecordedAs, Removes
    <2>2. CASE g # h
      <3>1. Alike(handler[g], handler'[g])
        BY <1>2, <2>2
      <3>2. handler'[g].op = handler[g].op /\ handler'[g].id = handler[g].id
        BY <3>1 DEF Alike
      <3>3. RecordedAs(handler[g], rec[handler[g].id])
        BY <3>2 DEF ControlInv, Recorded
      <3> QED BY <3>1, <3>2, <3>3, AlikeRecorded
    <2> QED BY <2>1, <2>2
  <1>6. MadeAlone'
    <2> SUFFICES ASSUME NEW f \in Handlers, NEW g \in Handlers, f # g, Removes(handler'[g])
                 PROVE  handler'[f].id # handler'[g].id
      BY DEF MadeAlone
    <2>1. \A e \in Handlers \ {h} : handler'[e].op = handler[e].op /\ handler'[e].id = handler[e].id
      BY <1>2 DEF Alike
    <2>2. \A e \in Handlers : /\ Removes(handler'[e]) => handler'[e].id \in Ids
                              /\ handler'[e].op \in {"none", "rename"} => handler'[e].id = Nowhere
      BY <1>4 DEF InShape, Removes
    <2>3. r.op \in {"none", "rename"} \/ (r.op = handler[h].op /\ r.id = handler[h].id)
      BY DEF GoesOn
    <2> QED BY <2>1, <2>2, <2>3, <1>3, LibraryAssumption DEF ControlInv, MadeAlone, Removes
  <1> QED BY <1>1, <1>4, <1>5, <1>6 DEF ControlInv

Fails(own, r) ==
  \/ own.op = "rename" /\ r = IdleHandler
  \/ /\ own.op # "rename"
     /\ r.op = own.op /\ r.id = own.id /\ r.kinds = own.kinds /\ r.row = own.row
     /\ r.to = own.to /\ r.undo = TRUE
     /\ r.todo = IF own.undo THEN Tail(own.todo) ELSE Reverse(own.moved)
     /\ r.moved = own.moved /\ r.dst = Nowhere
     /\ r.pc = IF r.todo = <<>> THEN "mark" ELSE "check"

LEMMA FailIs ==
  ASSUME NEW own \in RequestTypes, InShape(own), Moving(own) \/ own.pc = "commit"
  PROVE  LET r == NotMoved(own)
         IN  r \in RequestTypes /\ InShape(r) /\ r.pc # "copying" /\ Fails(own, r) /\ GoesOn(own, r)
  <1>1. CASE own.op = "rename"
    <2>1. NotMoved(own) = IdleHandler
      BY <1>1 DEF NotMoved
    <2>2. IdleHandler.pc = "idle" /\ IdleHandler.op = "none"
      BY DEF IdleHandler
    <2> QED BY <1>1, <2>1, <2>2, IdleShape DEF Fails, GoesOn
  <1>2. CASE own.op # "rename"
    <2>1. PICK r \in RequestTypes : r = NotMoved(own)
      BY <1>2, NotMovedShape, NotMovedIs
    <2>2. InShape(r) /\ (own.undo => own.todo # <<>>)
      BY <1>2, <2>1, NotMovedShape
    <2>5. /\ r.op = own.op /\ r.id = own.id /\ r.kinds = own.kinds /\ r.row = own.row
          /\ r.to = own.to /\ r.undo = TRUE
          /\ r.moved = own.moved /\ r.dst = Nowhere
      BY <1>2, <2>1, <2>2, NotMovedIs
    <2> DEFINE todo == IF own.undo THEN Tail(own.todo) ELSE Reverse(own.moved)
    <2>6. r.todo = todo /\ r.pc = IF todo = <<>> THEN "mark" ELSE "check"
      BY <1>2, <2>1, <2>2, NotMovedIs
    <2>3. Fails(own, r)
      BY <1>2, <2>5, <2>6, Zenon DEF Fails
    <2>4. GoesOn(own, r) /\ r.pc # "copying"
      BY <1>2, <2>3 DEF Fails, GoesOn, Moving
    <2> QED BY <2>1, <2>2, <2>3, <2>4
  <1> QED BY <1>1, <1>2

Advances(own, r) ==
  /\ r.op = own.op /\ r.id = own.id /\ r.kinds = own.kinds /\ r.row = own.row
  /\ r.to = own.to /\ r.undo = own.undo /\ r.todo = Tail(own.todo)
  /\ r.moved = IF own.undo THEN own.moved ELSE Append(own.moved, Head(own.todo))
  /\ r.dst = Nowhere
  /\ r.pc = IF Tail(own.todo) # <<>> THEN IF Forward(own) THEN "move" ELSE "check"
            ELSE IF own.undo THEN "mark" ELSE "commit"

LEMMA AdvanceIs ==
  ASSUME NEW own \in RequestTypes, InShape(own), own.pc \in {"move", "unlink"}
  PROVE  LET r == Moved(own)
         IN  r \in RequestTypes /\ InShape(r) /\ r.pc # "copying" /\ Advances(own, r) /\ GoesOn(own, r)
  <1>1. /\ own.todo # <<>> /\ (Head(own.todo) \notin ToSet(own.moved) \/ own.undo)
        /\ InShape(Moved(own))
    BY MovedShape DEF RequestTypes
  <1>2. PICK r \in RequestTypes : r = Moved(own)
    BY <1>1, MovedIs
  <1>3. Advances(own, r)
    BY <1>1, <1>2, MovedIs DEF Advances
  <1>4. GoesOn(own, r) /\ r.pc # "copying"
    BY <1>3 DEF Advances, GoesOn
  <1> QED BY <1>1, <1>2, <1>3, <1>4

\* A step that touches no file, record or row.
Quiet == files' = files /\ row' = row /\ rec' = rec
SameDsts(h) == \A g \in Handlers \ {h} : handler'[g].dst = handler[g].dst

\* A request at another step, for the same files.
Goes(own, r, pc) ==
  /\ r.op = own.op /\ r.id = own.id /\ r.kinds = own.kinds /\ r.row = own.row
  /\ r.to = own.to /\ r.undo = own.undo /\ r.todo = own.todo /\ r.moved = own.moved
  /\ r.pc = pc

LEMMA GoIs ==
  ASSUME LibraryTypes, NEW h \in Handlers, NEW pc \in Pcs, Go(h, pc)
  PROVE  \E r \in RequestTypes : /\ Turns(h, r) /\ SameDsts(h) /\ Goes(handler[h], r, pc)
                                 /\ r.dst = handler[h].dst /\ r.got = handler[h].got
  <1>1. PICK own \in RequestTypes : own = handler[h]
    BY DEF LibraryTypes
  <1>2. PICK r \in RequestTypes : r = [own EXCEPT !.pc = pc]
    BY DEF RequestTypes
  <1>3. handler' = [handler EXCEPT ![h] = r]
    BY <1>1, <1>2 DEF Go
  <1>4. Goes(own, r, pc) /\ r.dst = own.dst /\ r.got = own.got
    BY <1>2 DEF RequestTypes, Goes
  <1> QED BY <1>1, <1>3, <1>4, OneTurns DEF SameDsts

LEMMA NotMovedTurns ==
  ASSUME LibraryTypes, NEW h \in Handlers, InShape(handler[h]),
         Moving(handler[h]) \/ handler[h].pc = "commit",
         handler' = [handler EXCEPT ![h] = NotMoved(@)]
  PROVE  \E r \in RequestTypes : /\ Turns(h, r) /\ SameDsts(h) /\ Fails(handler[h], r)
                                 /\ InShape(r) /\ r.pc # "copying" /\ GoesOn(handler[h], r)
  <1>1. handler[h] \in RequestTypes
    BY DEF LibraryTypes
  <1>2. PICK r \in RequestTypes : /\ r = NotMoved(handler[h]) /\ Fails(handler[h], r)
                                  /\ InShape(r) /\ r.pc # "copying" /\ GoesOn(handler[h], r)
    BY <1>1, FailIs
  <1>3. handler' = [handler EXCEPT ![h] = r]
    BY <1>2
  <1> QED BY <1>2, <1>3, OneTurns DEF SameDsts

LEMMA MovedTurns ==
  ASSUME LibraryTypes, NEW h \in Handlers, InShape(handler[h]), handler[h].pc \in {"move", "unlink"},
         NEW src \in Places, NEW dst \in Places \cup {Nowhere},
         handler' = Follow([handler EXCEPT ![h] = Moved(@)], src, dst)
  PROVE  \E r \in RequestTypes : 
           /\ Turns(h, r) /\ Advances(handler[h], r)
           /\ InShape(r) /\ r.pc # "copying" /\ GoesOn(handler[h], r)
           /\ \A g \in Handlers \ {h} : handler'[g].dst = FollowDst(handler[g], src, dst)
  <1>1. handler[h] \in RequestTypes
    BY DEF LibraryTypes
  <1>2. PICK r \in RequestTypes : /\ r = Moved(handler[h]) /\ Advances(handler[h], r)
                                  /\ InShape(r) /\ r.pc # "copying" /\ GoesOn(handler[h], r)
    BY <1>1, AdvanceIs
  <1>3. handler' = Follow([handler EXCEPT ![h] = r], src, dst)
    BY <1>2
  <1> QED BY <1>2, <1>3, FollowTurns

-----------------------------------------------------------------------------
(* What each action does.                                                  *)

LEMMA EndsOfRequest ==
  ASSUME ControlInv, NEW h \in Handlers, Moving(handler[h])
  PROVE  LET own  == handler[h]
             kind == Head(own.todo)
             src  == Ends(h).src
             dst  == Ends(h).dst
             path == IF own.op = "restore" THEN rec[own.id].path ELSE own.row.path
         IN  /\ kind \in Kinds /\ kind \in ToSet(own.todo) /\ kind \in own.kinds
             /\ path \in Paths
             /\ src \in Places /\ dst \in Places
             /\ KindOf(src) = kind /\ KindOf(dst) = kind
             /\ own.op = "rename" => /\ kind = "source" /\ src = Home("source", path)
                                     /\ dst = Home("source", own.to) /\ own.to \in Paths
             /\ own.op # "rename" /\ Stashing(own) =>
                  src = Home(kind, path) /\ dst = Stash(own.id, kind) /\ own.id \in Ids
             /\ ~Stashing(own) =>
                  /\ src = Stash(own.id, kind) /\ dst = Home(kind, path) /\ own.id \in Ids
                  /\ own.op # "rename"
  <1>1. PICK own \in RequestTypes : own = handler[h]
    BY DEF ControlInv, LibraryTypes
  <1>2. InShape(own) /\ Moving(own)
    BY <1>1 DEF ControlInv
  <1>3. own.op = "restore" => rec[own.id].path \in Paths
    BY <1>1 DEF ControlInv, Recorded, RecordedAs, RecordTypes
  <1>4. Ends(h) = EndsOf(own, rec)
    BY <1>1 DEF Ends
  <1> QED BY <1>1, <1>2, <1>3, <1>4, EndsAre

LEMMA CheckIs ==
  ASSUME ControlInv, NEW h \in Handlers, Check(h)
  PROVE  /\ Quiet /\ SameDsts(h) /\ handler[h].pc = "check"
         /\ \E r \in RequestTypes :
              /\ Turns(h, r) /\ InShape(r) /\ r.pc # "copying" /\ GoesOn(handler[h], r)
              /\ \/ Fails(handler[h], r)
                 \/ Goes(handler[h], r, "move") /\ ~Regular(Ends(h).dst)
  <1>1. LibraryTypes /\ InShape(handler[h]) /\ handler[h].pc = "check" /\ Moving(handler[h]) /\ Quiet
    BY DEF ControlInv, Check, Moving, Quiet
  <1>2. CASE Regular(Ends(h).dst)
    <2>1. handler' = [handler EXCEPT ![h] = NotMoved(@)]
      BY <1>2 DEF Check
    <2> QED BY <1>1, <2>1, NotMovedTurns
  <1>3. CASE ~Regular(Ends(h).dst)
    <2>1. Go(h, "move") /\ "move" \in Pcs
      BY <1>3 DEF Check, Pcs
    <2>2. PICK r \in RequestTypes : /\ Turns(h, r) /\ SameDsts(h) /\ Goes(handler[h], r, "move")
                                    /\ r.dst = handler[h].dst /\ r.got = handler[h].got
      BY <1>1, <2>1, GoIs
    <2>3. InShape(r) /\ GoesOn(handler[h], r)
      BY <1>1, <2>2 DEF Goes, InShape, GoesOn, Moving, Forward, Removes
    <2>4. r.pc # "copying"
      BY <2>2 DEF Goes
    <2> QED BY <1>1, <1>3, <2>2, <2>3, <2>4
  <1> QED BY <1>2, <1>3

\* A step that touches files only.
FilesOnly == row' = row /\ rec' = rec

MoveFails(h, r) == Quiet /\ SameDsts(h) /\ ~Regular(Ends(h).src) /\ Fails(handler[h], r)

MoveAtOnce(h, r) ==
  /\ Regular(Ends(h).src)
  /\ ~Apart \/ handler[h].op = "rename"
  /\ files' = [files EXCEPT ![Ends(h).src] = "none", ![Ends(h).dst] = files[Ends(h).src]]
  /\ Advances(handler[h], r)
  /\ \A g \in Handlers \ {h} : handler'[g].dst = FollowDst(handler[g], Ends(h).src, Ends(h).dst)

MoveCopies(h, r) ==
  /\ Regular(Ends(h).src) /\ Apart /\ handler[h].op # "rename"
  /\ files' = [files EXCEPT ![Ends(h).dst] = "part"]
  /\ Goes(handler[h], r, "copying") /\ r.dst = Ends(h).dst
  /\ r.got = IF files[Ends(h).src] = "part" THEN "cut" ELSE files[Ends(h).src]
  /\ SameDsts(h)

LEMMA GotTyped ==
  ASSUME NEW own \in RequestTypes, NEW got \in {"cut", "whole"}
  PROVE  [own EXCEPT !.got = got] \in RequestTypes
  <1>1. got \in {"none", "cut", "whole"}
    OBVIOUS
  <1> HIDE DEF Orders
  <1> QED BY <1>1 DEF RequestTypes

LEMMA MoveIs ==
  ASSUME ControlInv, NEW h \in Handlers, Move(h)
  PROVE  /\ FilesOnly /\ handler[h].pc = "move" /\ files' \in [Places -> Contents]
         /\ \E r \in RequestTypes :
              /\ Turns(h, r) /\ InShape(r) /\ GoesOn(handler[h], r)
              /\ MoveFails(h, r) \/ MoveAtOnce(h, r) \/ MoveCopies(h, r)
  <1> DEFINE src == Ends(h).src
             dst == Ends(h).dst
  <1>1. LibraryTypes /\ InShape(handler[h]) /\ handler[h].pc = "move" /\ Moving(handler[h]) /\ FilesOnly
    BY DEF ControlInv, Move, Moving, FilesOnly
  <1>2. src \in Places /\ dst \in Places
    BY <1>1, EndsOfRequest
  <1>3. files \in [Places -> Contents] /\ Apart \in BOOLEAN
    BY <1>1, LibraryAssumption DEF LibraryTypes
  <1>4. CASE ~Regular(src)
    <2>1. handler' = [handler EXCEPT ![h] = NotMoved(@)] /\ files' = files
      BY <1>4 DEF Move
    <2>2. PICK r \in RequestTypes : /\ Turns(h, r) /\ SameDsts(h) /\ Fails(handler[h], r)
                                    /\ InShape(r) /\ GoesOn(handler[h], r)
      BY <1>1, <2>1, NotMovedTurns
    <2>3. MoveFails(h, r)
      BY <1>1, <1>4, <2>1, <2>2 DEF MoveFails, Quiet, FilesOnly
    <2> QED BY <1>1, <1>3, <2>1, <2>2, <2>3
  <1>5. CASE Regular(src) /\ (~Apart \/ handler[h].op = "rename")
    <2>1. /\ files' = [files EXCEPT ![src] = "none", ![dst] = files[src]]
          /\ handler' = Follow([handler EXCEPT ![h] = Moved(@)], src, dst)
      BY <1>5 DEF Move
    <2>2. PICK r \in RequestTypes :
            /\ Turns(h, r) /\ Advances(handler[h], r) /\ InShape(r) /\ GoesOn(handler[h], r)
            /\ \A g \in Handlers \ {h} : handler'[g].dst = FollowDst(handler[g], src, dst)
      BY <1>1, <1>2, <2>1, MovedTurns
    <2>3. MoveAtOnce(h, r)
      BY <1>5, <2>1, <2>2 DEF MoveAtOnce
    <2>4. files' \in [Places -> Contents]
      BY <2>1, <1>2, <1>3 DEF Contents
    <2> QED BY <1>1, <2>2, <2>3, <2>4
  <1>6. CASE Regular(src) /\ Apart /\ handler[h].op # "rename"
    <2>1. PICK got \in {"cut", "whole"} : got = IF files[src] = "part" THEN "cut" ELSE files[src]
      BY <1>2, <1>3, <1>6 DEF Regular, Contents
    <2>2. /\ files' = [files EXCEPT ![dst] = "part"]
          /\ handler' = [handler EXCEPT ![h].pc = "copying", ![h].dst = dst, ![h].got = got]
      BY <1>6, <2>1 DEF Move
    <2>3. PICK own \in RequestTypes : own = handler[h]
      BY <1>1 DEF LibraryTypes
    <2>4. PICK r1 \in RequestTypes : r1 = [own EXCEPT !.pc = "copying"]
      BY DEF RequestTypes, Pcs
    <2>5. PICK r2 \in RequestTypes : r2 = [r1 EXCEPT !.dst = dst]
      BY <1>2 DEF RequestTypes
    <2>6. PICK r \in RequestTypes : r = [r2 EXCEPT !.got = got]
      BY GotTyped
    <2>7. handler' = [handler EXCEPT ![h] = r]
      <3>1. handler \in [Handlers -> RequestTypes]
        BY <1>1 DEF LibraryTypes
      <3>2. PICK g1 \in [Handlers -> RequestTypes] : g1 = [handler EXCEPT ![h] = r1]
        BY <3>1
      <3>3. PICK g2 \in [Handlers -> RequestTypes] : g2 = [g1 EXCEPT ![h] = r2]
        BY <3>2
      <3>4. g1 = [handler EXCEPT ![h].pc = "copying"]
        BY <3>1, <3>2, <2>3, <2>4
      <3>5. g2 = [g1 EXCEPT ![h].dst = dst]
        BY <3>2, <3>3, <2>5
      <3>6. handler' = [g2 EXCEPT ![h].got = got]
        BY <2>2, <3>4, <3>5
      <3>7. handler' = [g2 EXCEPT ![h] = r]
        BY <3>3, <3>6, <2>6
      <3> QED BY <3>1, <3>2, <3>3, <3>7
    <2>8. Goes(own, r, "copying") /\ r.dst = dst /\ r.got = got
      BY <2>4, <2>5, <2>6 DEF RequestTypes, Goes
    <2>9. Turns(h, r) /\ SameDsts(h)
      BY <1>1, <2>7, OneTurns DEF SameDsts
    <2>10. MoveCopies(h, r)
      BY <1>6, <2>1, <2>2, <2>3, <2>8, <2>9 DEF MoveCopies
    <2>11. InShape(r)
      BY <1>1, <1>6, <2>3, <2>8 DEF Goes, InShape, Moving, Forward, Removes
    <2>12. GoesOn(handler[h], r)
      BY <1>1, <2>3, <2>8 DEF Goes, GoesOn
    <2>13. files' \in [Places -> Contents]
      BY <2>2, <1>2, <1>3 DEF Contents
    <2> QED BY <1>1, <2>9, <2>10, <2>11, <2>12, <2>13
  <1> QED BY <1>3, <1>4, <1>5, <1>6

LEMMA CopiedIs ==
  ASSUME ControlInv, NEW h \in Handlers, Copied(h)
  PROVE  /\ FilesOnly /\ SameDsts(h) /\ handler[h].pc = "copying" /\ files' \in [Places -> Contents]
         /\ files' = IF handler[h].dst = Nowhere THEN files
                     ELSE [files EXCEPT ![handler[h].dst] = handler[h].got]
         /\ \E r \in RequestTypes :
              /\ Turns(h, r) /\ InShape(r) /\ GoesOn(handler[h], r)
              /\ \/ Fails(handler[h], r) /\ ~Regular(Ends(h).dst)
                 \/ Goes(handler[h], r, "unlink") /\ Regular(Ends(h).dst)
  <1>1. LibraryTypes /\ InShape(handler[h]) /\ handler[h].pc = "copying" /\ Moving(handler[h])
        /\ FilesOnly /\ files' = IF handler[h].dst = Nowhere THEN files
                                 ELSE [files EXCEPT ![handler[h].dst] = handler[h].got]
    BY DEF ControlInv, Copied, Moving, FilesOnly
  <1>2. handler[h].got \in {"cut", "whole"}
    BY <1>1 DEF InShape
  <1>3. files' \in [Places -> Contents]
    BY <1>1, <1>2 DEF LibraryTypes, Contents
  <1>4. CASE ~Regular(Ends(h).dst)
    <2>1. handler' = [handler EXCEPT ![h] = NotMoved(@)]
      BY <1>4 DEF Copied
    <2> QED BY <1>1, <1>3, <1>4, <2>1, NotMovedTurns
  <1>5. CASE Regular(Ends(h).dst)
    <2>1. Go(h, "unlink") /\ "unlink" \in Pcs
      BY <1>5 DEF Copied, Pcs
    <2>2. PICK r \in RequestTypes : /\ Turns(h, r) /\ SameDsts(h) /\ Goes(handler[h], r, "unlink")
                                    /\ r.dst = handler[h].dst /\ r.got = handler[h].got
      BY <1>1, <2>1, GoIs
    <2>3. InShape(r) /\ GoesOn(handler[h], r)
      BY <1>1, <2>2 DEF Goes, InShape, GoesOn, Moving, Forward, Removes
    <2> QED BY <1>1, <1>3, <1>5, <2>2, <2>3
  <1> QED BY <1>4, <1>5

UnlinkFails(h, r) == Quiet /\ SameDsts(h) /\ ~Regular(Ends(h).src) /\ Fails(handler[h], r)

UnlinkAtOnce(h, r) ==
  /\ Regular(Ends(h).src)
  /\ files' = [files EXCEPT ![Ends(h).src] = "none"]
  /\ Advances(handler[h], r)
  /\ \A g \in Handlers \ {h} : handler'[g].dst = FollowDst(handler[g], Ends(h).src, Nowhere)

LEMMA UnlinkIs ==
  ASSUME ControlInv, NEW h \in Handlers, Unlink(h)
  PROVE  /\ FilesOnly /\ handler[h].pc = "unlink" /\ files' \in [Places -> Contents]
         /\ \E r \in RequestTypes :
              /\ Turns(h, r) /\ InShape(r) /\ r.pc # "copying" /\ GoesOn(handler[h], r)
              /\ UnlinkFails(h, r) \/ UnlinkAtOnce(h, r)
  <1> DEFINE src == Ends(h).src
  <1>1. LibraryTypes /\ InShape(handler[h]) /\ handler[h].pc = "unlink" /\ Moving(handler[h]) /\ FilesOnly
    BY DEF ControlInv, Unlink, Moving, FilesOnly
  <1>2. src \in Places
    BY <1>1, EndsOfRequest
  <1>3. files \in [Places -> Contents]
    BY <1>1 DEF LibraryTypes
  <1>4. CASE ~Regular(src)
    <2>1. handler' = [handler EXCEPT ![h] = NotMoved(@)] /\ files' = files
      BY <1>4 DEF Unlink
    <2>2. PICK r \in RequestTypes : /\ Turns(h, r) /\ SameDsts(h) /\ Fails(handler[h], r)
                                    /\ InShape(r) /\ r.pc # "copying" /\ GoesOn(handler[h], r)
      BY <1>1, <2>1, NotMovedTurns
    <2>3. UnlinkFails(h, r)
      BY <1>1, <1>4, <2>1, <2>2 DEF UnlinkFails, Quiet, FilesOnly
    <2> QED BY <1>1, <1>3, <2>1, <2>2, <2>3
  <1>5. CASE Regular(src)
    <2>1. /\ files' = [files EXCEPT ![src] = "none"]
          /\ handler' = Follow([handler EXCEPT ![h] = Moved(@)], src, Nowhere)
      BY <1>5 DEF Unlink
    <2>2. PICK r \in RequestTypes :
            /\ Turns(h, r) /\ Advances(handler[h], r) /\ InShape(r) /\ r.pc # "copying"
            /\ GoesOn(handler[h], r)
            /\ \A g \in Handlers \ {h} : handler'[g].dst = FollowDst(handler[g], src, Nowhere)
      BY <1>1, <1>2, <2>1, MovedTurns
    <2>3. UnlinkAtOnce(h, r)
      BY <1>5, <2>1, <2>2 DEF UnlinkAtOnce
    <2>4. files' \in [Places -> Contents]
      BY <2>1, <1>2, <1>3 DEF Contents
    <2> QED BY <1>1, <2>2, <2>3, <2>4
  <1> QED BY <1>4, <1>5

LEMMA FailureIs ==
  ASSUME ControlInv, NEW h \in Handlers, Failure(h)
  PROVE  /\ Quiet /\ SameDsts(h) /\ handler[h].pc \in {"copying", "commit"}
         /\ \E r \in RequestTypes :
              /\ Turns(h, r) /\ InShape(r) /\ r.pc # "copying" /\ GoesOn(handler[h], r)
              /\ Fails(handler[h], r) \/ r = IdleHandler
  <1>1. LibraryTypes /\ InShape(handler[h]) /\ Quiet
    BY DEF ControlInv, Failure, CopyFails, CommitFails, Quiet
  <1>2. handler[h].pc \in {"copying", "commit"}
    BY DEF Failure, CopyFails, CommitFails
  <1>3. Moving(handler[h]) \/ handler[h].pc = "commit"
    BY <1>2 DEF Moving
  <1>4. CASE handler' = [handler EXCEPT ![h] = NotMoved(@)]
    BY <1>1, <1>2, <1>3, <1>4, NotMovedTurns
  <1>5. CASE End(h)
    <2>1. handler' = [handler EXCEPT ![h] = IdleHandler] /\ IdleHandler \in RequestTypes
      BY <1>5, IdleShape DEF End
    <2>2. Turns(h, IdleHandler) /\ SameDsts(h)
      BY <1>1, <2>1, OneTurns DEF SameDsts
    <2>3. IdleHandler.pc = "idle" /\ IdleHandler.op = "none"
      BY DEF IdleHandler
    <2> QED BY <1>1, <1>2, <2>2, <2>3, IdleShape DEF GoesOn
  <1> QED BY <1>4, <1>5 DEF Failure, CopyFails, CommitFails
StatusBecomes(id, status) ==
  /\ rec' \in [Ids -> RecordTypes \cup {NoRecord}]
  /\ \A i \in Ids \ {id} : rec'[i] = rec[i]
  /\ rec'[id] \in RecordTypes
  /\ rec'[id].op = rec[id].op /\ rec'[id].kinds = rec[id].kinds /\ rec'[id].path = rec[id].path
  /\ rec'[id].restoring = rec[id].restoring /\ rec'[id].status = status

LEMMA StatusIs ==
  ASSUME LibraryTypes, NEW id \in Ids, rec[id] \in RecordTypes, NEW status \in Statuses,
         rec' = [rec EXCEPT ![id].status = status]
  PROVE  StatusBecomes(id, status)
  <1>1. rec \in [Ids -> RecordTypes \cup {NoRecord}]
    BY DEF LibraryTypes
  <1>2. PICK its \in RecordTypes : its = rec[id]
    OBVIOUS
  <1>3. PICK new \in RecordTypes : new = [its EXCEPT !.status = status]
    BY DEF RecordTypes
  <1>4. /\ new.op = its.op /\ new.kinds = its.kinds /\ new.path = its.path
        /\ new.restoring = its.restoring /\ new.status = status
    BY <1>3 DEF RecordTypes
  <1>5. rec' = [rec EXCEPT ![id] = new]
    BY <1>1, <1>2, <1>3
  <1> QED BY <1>1, <1>2, <1>4, <1>5 DEF StatusBecomes

LEMMA IfPendingIs ==
  ASSUME LibraryTypes, NEW id \in Ids, rec[id] \in RecordTypes, NEW status \in Statuses,
         rec' = IfPending(id, status)
  PROVE  StatusBecomes(id, IF rec[id].status = "pending" THEN status ELSE rec[id].status)
  <1>1. PICK new \in Statuses : new = IF rec[id].status = "pending" THEN status ELSE rec[id].status
    BY DEF RecordTypes
  <1>2. rec' = [rec EXCEPT ![id].status = new]
    BY <1>1 DEF IfPending, LibraryTypes
  <1> QED BY <1>1, <1>2, StatusIs

\* What becomes of a request and its record when the record's status changes.
StatusFits(own, r, status) ==
  \/ Removes(own) /\ r.op = "none"
  \/ /\ own.op = "delete" /\ r.op = own.op /\ r.id = own.id /\ r.kinds = own.kinds
     /\ r.pc \in {"purge", "complete"} /\ status = "staged"
  \/ own.op = "restore" /\ r.op = "none" /\ status \in {"active", "restored"}

LEMMA ControlStatus ==
  ASSUME ControlInv, NEW h \in Handlers, NEW r \in RequestTypes, InShape(r), Turns(h, r),
         NEW status, StatusBecomes(handler[h].id, status), StatusFits(handler[h], r, status),
         row' \in Rows, files' \in [Places -> Contents], crossed' \in BOOLEAN
  PROVE  ControlInv'
  <1>1. LibraryTypes'
    BY DEF ControlInv, LibraryTypes, Turns, StatusBecomes
  <1>2. \A g \in Handlers \ {h} : Alike(handler[g], handler'[g])
    BY DEF Turns
  <1>3. handler \in [Handlers -> RequestTypes] /\ handler' \in [Handlers -> RequestTypes]
        /\ handler'[h] = r
    BY DEF ControlInv, LibraryTypes, Turns
  <1>4. \A g \in Handlers : InShape(handler'[g])
    BY <1>2, <1>3, AlikeShape DEF ControlInv
  <1>5. \A g \in Handlers : Recorded(g)'
    <2> SUFFICES ASSUME NEW g \in Handlers, handler'[g].op \in {"trash", "delete", "restore"}
                 PROVE  RecordedAs(handler'[g], rec'[handler'[g].id])
      BY DEF Recorded
    <2>1. CASE g = h
      <3>1. /\ r.op = "delete" /\ handler[h].op = "delete" /\ r.id = handler[h].id
            /\ r.kinds = handler[h].kinds /\ r.pc \in {"purge", "complete"} /\ status = "staged"
        BY <1>3, <2>1 DEF StatusFits
      <3>2. RecordedAs(handler[h], rec[handler[h].id])
        BY <3>1, <2>1, <1>3 DEF ControlInv, Recorded
      <3> QED BY <3>1, <3>2, <2>1, <1>3 DEF RecordedAs, Removes, StatusBecomes
    <2>2. CASE g # h
      <3>1. Alike(handler[g], handler'[g])
        BY <1>2, <2>2
      <3>2. handler'[g].op = handler[g].op /\ handler'[g].id = handler[g].id
        BY <3>1 DEF Alike
      <3>3. RecordedAs(handler[g], rec[handler[g].id])
        BY <3>2 DEF ControlInv, Recorded
      <3>4. handler[g].id \in Ids
        BY <3>2 DEF ControlInv, InShape
      <3>5. CASE handler[g].id # handler[h].id
        <4>1. rec'[handler[g].id] = rec[handler[g].id]
          BY <3>4, <3>5 DEF StatusBecomes
        <4> QED BY <3>1, <3>2, <3>3, <4>1, AlikeRecorded
      <3>6. CASE handler[g].id = handler[h].id
        <4>1. ~Removes(handler[g]) /\ ~Removes(handler[h])
          BY <3>6, <2>2 DEF ControlInv, MadeAlone
        <4>2. status \in {"active", "restored"}
          BY <4>1 DEF StatusFits, Removes
        <4>3. RecordedAs(handler[g], rec'[handler[g].id])
          BY <3>3, <3>6, <4>1, <4>2 DEF RecordedAs, StatusBecomes
        <4> QED BY <3>1, <3>2, <4>3, AlikeRecorded
      <3> QED BY <3>5, <3>6
    <2> QED BY <2>1, <2>2
  <1>6. MadeAlone'
    <2> SUFFICES ASSUME NEW f \in Handlers, NEW g \in Handlers, f # g, Removes(handler'[g])
                 PROVE  handler'[f].id # handler'[g].id
      BY DEF MadeAlone
    <2>1. \A e \in Handlers \ {h} : handler'[e].op = handler[e].op /\ handler'[e].id = handler[e].id
      BY <1>2 DEF Alike
    <2>2. \A e \in Handlers : /\ Removes(handler'[e]) => handler'[e].id \in Ids
                              /\ handler'[e].op \in {"none", "rename"} => handler'[e].id = Nowhere
      BY <1>4 DEF InShape, Removes
    <2>3. r.op \in {"none", "rename"} \/ (r.op = handler[h].op /\ r.id = handler[h].id)
      BY DEF StatusFits
    <2> QED BY <2>1, <2>2, <2>3, <1>3, LibraryAssumption DEF ControlInv, MadeAlone, Removes
  <1> QED BY <1>1, <1>4, <1>5, <1>6 DEF ControlInv

LEMMA EndIs ==
  ASSUME LibraryTypes, NEW h \in Handlers, End(h)
  PROVE  /\ IdleHandler \in RequestTypes /\ InShape(IdleHandler) /\ Turns(h, IdleHandler)
         /\ SameDsts(h) /\ IdleHandler.op = "none" /\ IdleHandler.pc = "idle"
  BY IdleShape, OneTurns DEF End, SameDsts, IdleHandler

\* How a request with a record ends, or a deletion goes on.
LEMMA CommitIs ==
  ASSUME ControlInv, NEW h \in Handlers, Commit(h)
  PROVE  /\ files' = files /\ SameDsts(h) /\ handler[h].pc = "commit" /\ row' \in Rows
         /\ handler[h].todo = <<>> /\ ~handler[h].undo /\ handler[h].op \in Ops
         /\ \E r \in RequestTypes :
              /\ Turns(h, r) /\ InShape(r) /\ r.todo = <<>>
              /\ \/ /\ handler[h].op = "trash" /\ r = IdleHandler
                    /\ StatusBecomes(handler[h].id, "active")
                 \/ /\ handler[h].op = "delete" /\ Goes(handler[h], r, "purge")
                    /\ StatusBecomes(handler[h].id, "staged")
                 \/ /\ handler[h].op = "restore" /\ r = IdleHandler
                    /\ StatusBecomes(handler[h].id, "restored")
                 \/ /\ handler[h].op = "rename" /\ r = IdleHandler /\ rec' = rec
  <1> DEFINE own == handler[h]
  <1>1. LibraryTypes /\ InShape(own) /\ own.pc = "commit" /\ files' = files
    BY DEF ControlInv, Commit
  <1>2. own \in RequestTypes /\ row \in Rows
    BY <1>1 DEF LibraryTypes
  <1>3. own.todo = <<>> /\ ~own.undo /\ own.op \in Ops /\ own.row \in Rows
    BY <1>1, <1>2 DEF InShape, Moving, RequestTypes
  <1>4. own.op # "rename" => own.id \in Ids /\ rec[own.id] \in RecordTypes /\ RecordedAs(own, rec[own.id])
    BY <1>1, <1>3 DEF ControlInv, Recorded, RecordedAs, InShape, Ops
  <1>5. Removes(own) => rec[own.id].status = "pending"
    BY <1>1, <1>4 DEF RecordedAs, Removes
  <1>6. IdleHandler.todo = <<>>
    BY DEF IdleHandler
  <1>7. CASE own.op = "trash"
    <2>1. rec' = IfPending(own.id, "active") /\ End(h) /\ "active" \in Statuses
          /\ row' = [row EXCEPT !.out = own.row.out /\ ~("output" \in own.kinds)]
      BY <1>7 DEF Commit, Statuses
    <2>2. StatusBecomes(own.id, "active")
      BY <1>1, <1>4, <1>5, <1>7, <2>1, IfPendingIs DEF Removes
    <2>3. row' \in Rows
      BY <1>2, <1>3, <2>1 DEF Rows
    <2> QED BY <1>1, <1>3, <1>6, <1>7, <2>1, <2>2, <2>3, EndIs
  <1>8. CASE own.op = "delete"
    <2>1. rec' = IfPending(own.id, "staged") /\ Go(h, "purge") /\ "staged" \in Statuses
          /\ row' = [row EXCEPT !.out = own.row.out /\ ~("output" \in own.kinds)]
      BY <1>8 DEF Commit, Statuses
    <2>2. StatusBecomes(own.id, "staged")
      BY <1>1, <1>4, <1>5, <1>8, <2>1, IfPendingIs DEF Removes
    <2>3. row' \in Rows
      BY <1>2, <1>3, <2>1 DEF Rows
    <2>4. "purge" \in Pcs
      BY DEF Pcs
    <2>5. PICK r \in RequestTypes : Turns(h, r) /\ SameDsts(h) /\ Goes(own, r, "purge")
      BY <1>1, <2>1, <2>4, GoIs
    <2>6. InShape(r) /\ r.todo = <<>>
      BY <1>1, <1>3, <1>8, <2>5 DEF Goes, InShape, Moving, Forward, Removes
    <2> QED BY <1>1, <1>3, <1>8, <2>2, <2>3, <2>5, <2>6
  <1>9. CASE own.op = "restore"
    <2>1. rec' = [rec EXCEPT ![own.id].status = "restored"] /\ End(h) /\ "restored" \in Statuses
          /\ row' = [row EXCEPT !.out = own.row.out \/ "output" \in own.kinds]
      BY <1>9 DEF Commit, Statuses
    <2>2. StatusBecomes(own.id, "restored")
      BY <1>1, <1>4, <1>9, <2>1, StatusIs
    <2>3. row' \in Rows
      BY <1>2, <1>3, <2>1 DEF Rows
    <2> QED BY <1>1, <1>3, <1>6, <1>9, <2>1, <2>2, <2>3, EndIs
  <1>10. CASE own.op = "rename"
    <2>1. rec' = rec /\ End(h) /\ row' = [row EXCEPT !.path = own.to] /\ own.to \in Paths
      BY <1>1, <1>10 DEF Commit, InShape
    <2>2. row' \in Rows
      BY <1>2, <2>1 DEF Rows
    <2> QED BY <1>1, <1>3, <1>6, <1>10, <2>1, <2>2, EndIs
  <1> QED BY <1>3, <1>7, <1>8, <1>9, <1>10 DEF Ops

LEMMA MarkIs ==
  ASSUME ControlInv, NEW h \in Handlers, Mark(h)
  PROVE  /\ files' = files /\ row' = row /\ SameDsts(h) /\ handler[h].pc = "mark"
         /\ Turns(h, IdleHandler) /\ handler[h].undo
         /\ \/ Removes(handler[h]) /\ StatusBecomes(handler[h].id, "failed")
            \/ handler[h].op = "restore" /\ StatusBecomes(handler[h].id, rec[handler[h].id].status)
  <1> DEFINE own == handler[h]
  <1>1. LibraryTypes /\ InShape(own) /\ own.pc = "mark" /\ files' = files /\ row' = row /\ End(h)
        /\ rec' = IfPending(own.id, "failed") /\ "failed" \in Statuses
    BY DEF ControlInv, Mark, Statuses
  <1>2. own.op \in {"trash", "delete", "restore"} /\ own.id \in Ids /\ own.undo
    BY <1>1 DEF InShape, Ops, LibraryTypes, RequestTypes
  <1>3. RecordedAs(own, rec[own.id])
    BY <1>2 DEF ControlInv, Recorded
  <1>4. StatusBecomes(own.id, IF rec[own.id].status = "pending" THEN "failed" ELSE rec[own.id].status)
    BY <1>1, <1>2, <1>3, IfPendingIs DEF RecordedAs
  <1>5. IF Removes(own) THEN rec[own.id].status = "pending"
        ELSE own.op = "restore" /\ rec[own.id].status # "pending"
    BY <1>1, <1>2, <1>3 DEF RecordedAs, Removes
  <1> QED BY <1>1, <1>2, <1>4, <1>5, EndIs

LEMMA PurgeIs ==
  ASSUME ControlInv, NEW h \in Handlers, Purge(h)
  PROVE  /\ row' = row /\ rec' = rec /\ SameDsts(h) /\ handler[h].pc = "purge"
         /\ handler[h].op = "delete" /\ handler[h].id \in Ids /\ handler[h].kinds \subseteq Kinds
         /\ rec[handler[h].id].op = "delete" /\ rec[handler[h].id].status = "staged"
         /\ rec[handler[h].id].kinds = handler[h].kinds /\ handler[h].todo = <<>>
         /\ files' \in [Places -> Contents]
         /\ \E gone \in SUBSET handler[h].kinds :
              files' = [p \in Places |-> IF p \in {handler[h].id} \X gone THEN "none" ELSE files[p]]
         /\ \E r \in RequestTypes : Turns(h, r) /\ InShape(r) /\ Goes(handler[h], r, "complete")
  <1> DEFINE own == handler[h]
  <1>1. LibraryTypes /\ InShape(own) /\ own.pc = "purge" /\ row' = row /\ rec' = rec
        /\ Go(h, "complete") /\ "complete" \in Pcs
        /\ \E gone \in SUBSET own.kinds :
             files' = [p \in Places |-> IF p \in {own.id} \X gone THEN "none" ELSE files[p]]
    <2>1. PICK residue \in SUBSET own.kinds :
            files' = [p \in Places |-> IF p \in {own.id} \X (own.kinds \ residue) THEN "none"
                                       ELSE files[p]]
      BY DEF Purge
    <2>2. own.kinds \ residue \in SUBSET own.kinds
      OBVIOUS
    <2>3. LibraryTypes /\ InShape(own) /\ own.pc = "purge" /\ row' = row /\ rec' = rec
          /\ Go(h, "complete") /\ "complete" \in Pcs
      BY DEF ControlInv, Purge, Pcs
    <2> QED BY <2>1, <2>2, <2>3
  <1>2. own.op = "delete" /\ own.id \in Ids /\ own.todo = <<>> /\ ~own.undo
    BY <1>1 DEF InShape, Moving
  <1>3. RecordedAs(own, rec[own.id])
    BY <1>2 DEF ControlInv, Recorded
  <1>4. rec[own.id].op = "delete" /\ rec[own.id].status = "staged" /\ rec[own.id].kinds = own.kinds
    BY <1>1, <1>2, <1>3 DEF RecordedAs, Removes
  <1>5. files' \in [Places -> Contents]
    BY <1>1 DEF LibraryTypes, Contents
  <1>6. own.kinds \subseteq Kinds
    BY <1>1 DEF LibraryTypes, RequestTypes
  <1>7. PICK r \in RequestTypes : Turns(h, r) /\ SameDsts(h) /\ Goes(own, r, "complete")
    BY <1>1, GoIs
  <1>8. InShape(r)
    BY <1>1, <1>2, <1>7 DEF Goes, InShape, Moving, Forward, Removes
  <1> QED BY <1>1, <1>2, <1>4, <1>5, <1>6, <1>7, <1>8

\* How a permanent deletion is closed.
Closings == {"completed", "completed_with_residue"}

LEMMA CompleteIs ==
  ASSUME ControlInv, NEW h \in Handlers, Complete(h)
  PROVE  /\ files' = files /\ row' = row /\ SameDsts(h) /\ handler[h].pc = "complete"
         /\ handler[h].op = "delete" /\ ~handler[h].undo /\ handler[h].todo = <<>>
         /\ rec[handler[h].id].op = "delete" /\ rec[handler[h].id].status = "staged"
         /\ Turns(h, IdleHandler)
         /\ \E status \in Closings :
              /\ StatusBecomes(handler[h].id, status)
              /\ status = "completed" =>
                   \A k \in handler[h].kinds : files[Stash(handler[h].id, k)] = "none"
  <1> DEFINE own == handler[h]
             residue == \E k \in own.kinds : Regular(Stash(own.id, k))
  <1>1. LibraryTypes /\ InShape(own) /\ own.pc = "complete" /\ files' = files /\ row' = row /\ End(h)
    BY DEF ControlInv, Complete
  <1>2. own.op = "delete" /\ own.id \in Ids /\ ~own.undo /\ own.todo = <<>>
    BY <1>1 DEF InShape, Moving
  <1>3. RecordedAs(own, rec[own.id])
    BY <1>2 DEF ControlInv, Recorded
  <1>4. rec[own.id] \in RecordTypes /\ rec[own.id].op = "delete" /\ rec[own.id].status = "staged"
    BY <1>1, <1>2, <1>3 DEF RecordedAs, Removes
  <1>5. PICK status \in Closings :
          /\ rec' = [rec EXCEPT ![own.id].status = status]
          /\ status = "completed" => ~residue
    BY DEF Complete, Closings
  <1>6. status \in Statuses
    BY DEF Closings, Statuses
  <1>7. StatusBecomes(own.id, status)
    BY <1>1, <1>2, <1>4, <1>5, <1>6, StatusIs
  <1>8. status = "completed" => \A k \in own.kinds : files[Stash(own.id, k)] = "none"
    BY <1>5 DEF Regular
  <1> QED BY <1>1, <1>2, <1>4, <1>7, <1>8, EndIs

\* A request that begins.
Starts(h, r, op, id, kinds, to) ==
  /\ r.pc = (IF op \in {"trash", "delete"} THEN "move" ELSE "check")
  /\ r.op = op /\ r.id = id /\ r.kinds = kinds /\ r.row = row /\ r.to = to
  /\ r.todo \in Orders /\ ToSet(r.todo) = kinds /\ r.todo # <<>>
  /\ r.moved = <<>> /\ r.undo = FALSE /\ r.dst = Nowhere

LEMMA StartIs ==
  ASSUME LibraryTypes, NEW h \in Handlers, NEW op \in Ops, NEW id \in Ids \cup {Nowhere},
         NEW kinds \in SUBSET Kinds, kinds # {}, NEW to \in Paths \cup {"none"},
         IF op = "rename" THEN id = Nowhere /\ kinds = {"source"} /\ to \in Paths ELSE id \in Ids,
         Start(h, op, id, kinds, to)
  PROVE  /\ handler[h].pc = "idle"
         /\ \E r \in RequestTypes : /\ Turns(h, r) /\ SameDsts(h) /\ InShape(r)
                                    /\ Starts(h, r, op, id, kinds, to)
  <1> DEFINE i1 == [IdleHandler EXCEPT !.op = op]
             i2 == [i1 EXCEPT !.id = id]
             i3 == [i2 EXCEPT !.kinds = kinds]
             i4 == [i3 EXCEPT !.row = row]
             i5 == [i4 EXCEPT !.to = to]
             i6 == [i5 EXCEPT !.todo = InOrder(kinds)]
  <1>1. InOrder(kinds) \in Orders /\ ToSet(InOrder(kinds)) = kinds
    BY OrdersAll
  <1>2. i1 \in RequestTypes
    BY IdleShape DEF RequestTypes
  <1>3. i2 \in RequestTypes
    BY <1>2 DEF RequestTypes
  <1>4. i3 \in RequestTypes
    BY <1>3 DEF RequestTypes
  <1>5. i4 \in RequestTypes
    BY <1>4 DEF RequestTypes, LibraryTypes
  <1>6. i5 \in RequestTypes
    BY <1>5 DEF RequestTypes
  <1>7. PICK n \in RequestTypes : n = i6
    <2> HIDE DEF i5
    <2>1. i6 \in RequestTypes
      BY <1>6, <1>1 DEF RequestTypes
    <2> QED BY <2>1
  <1>8. /\ n.op = op /\ n.id = id /\ n.kinds = kinds /\ n.row = row /\ n.to = to
        /\ n.todo = InOrder(kinds) /\ n.moved = <<>> /\ n.undo = FALSE /\ n.dst = Nowhere
    BY <1>7, IdleShape DEF RequestTypes, IdleHandler
  <1>9. Begin([IdleHandler EXCEPT !.op = op, !.id = id, !.kinds = kinds, !.row = row, !.to = to,
                                  !.todo = InOrder(kinds)]) = Begin(n)
    BY <1>7
  <1>10. PICK pc \in Pcs : pc = (IF op \in {"trash", "delete"} THEN "move" ELSE "check")
    BY DEF Pcs
  <1>11. Begin(n) = [n EXCEPT !.pc = pc]
    BY <1>8, <1>10, BeginIs DEF Forward, Removes
  <1>12. PICK r \in RequestTypes : r = [n EXCEPT !.pc = pc]
    BY DEF RequestTypes
  <1>13. handler' = [handler EXCEPT ![h] = r] /\ handler[h].pc = "idle"
    BY <1>9, <1>11, <1>12 DEF Start
  <1>14. /\ r.pc = pc /\ r.op = op /\ r.id = id /\ r.kinds = kinds /\ r.row = row /\ r.to = to
         /\ r.todo = InOrder(kinds) /\ r.moved = <<>> /\ r.undo = FALSE /\ r.dst = Nowhere
    BY <1>8, <1>12 DEF RequestTypes
  <1>15. r.todo # <<>>
    BY <1>1, <1>14, OrdersEmpty
  <1>16. Starts(h, r, op, id, kinds, to)
    BY <1>1, <1>10, <1>14, <1>15 DEF Starts
  <1>17. row \in Rows
    BY DEF LibraryTypes
  <1>18. Moving(r) <=> r.todo # <<>>
    BY <1>10, <1>14, <1>15 DEF Moving
  <1>19. IF r.undo THEN ToSet(r.todo) \subseteq r.kinds
         ELSE /\ ToSet(r.todo) \cap ToSet(r.moved) = {}
              /\ ToSet(r.todo) \cup ToSet(r.moved) = r.kinds
    BY <1>1, <1>14, OrdersEmpty
  <1>20. InShape(r)
    BY <1>10, <1>14, <1>17, <1>18, <1>19 DEF InShape, Forward, Removes, Ops
  <1> QED BY <1>13, <1>16, <1>20, OneTurns DEF SameDsts

LEMMA TrashOrDeleteIs ==
  ASSUME ControlInv, NEW h \in Handlers, TrashOrDelete(h)
  PROVE  /\ files' = files /\ row' = row /\ SameDsts(h) /\ handler[h].pc = "idle"
         /\ \E op \in {"trash", "delete"}, kinds \in SUBSET Kinds, id \in Ids, r \in RequestTypes :
              /\ Turns(h, r) /\ InShape(r) /\ Starts(h, r, op, id, kinds, "none") /\ kinds # {}
              /\ rec[id] = NoRecord /\ Pending(op, kinds) \in RecordTypes
              /\ rec' = [rec EXCEPT ![id] = Pending(op, kinds)]
  <1>1. PICK op \in {"trash", "delete"}, kinds \in Targets, id \in Ids :
          /\ rec[id] = NoRecord /\ rec' = [rec EXCEPT ![id] = Pending(op, kinds)]
          /\ Start(h, op, id, kinds, "none")
    BY DEF TrashOrDelete
  <1>2. kinds \in SUBSET Kinds /\ kinds # {}
    BY LibraryAssumption
  <1>3. LibraryTypes /\ row \in Rows /\ files' = files /\ row' = row
    BY DEF ControlInv, LibraryTypes, TrashOrDelete
  <1>4. op \in Ops /\ op # "rename"
    BY DEF Ops
  <1>5. handler[h].pc = "idle" /\ \E r \in RequestTypes : /\ Turns(h, r) /\ SameDsts(h) /\ InShape(r)
                                    /\ Starts(h, r, op, id, kinds, "none")
    BY <1>1, <1>2, <1>3, <1>4, StartIs
  <1>6. Pending(op, kinds) \in RecordTypes
    BY <1>2, <1>3 DEF Pending, RecordTypes, Rows, Statuses
  <1> QED BY <1>1, <1>2, <1>3, <1>5, <1>6

LEMMA RestoreIs ==
  ASSUME ControlInv, NEW h \in Handlers, Restore(h)
  PROVE  /\ files' = files /\ row' = row /\ SameDsts(h) /\ handler[h].pc = "idle"
         /\ \E id \in Ids, r \in RequestTypes :
              /\ Turns(h, r) /\ InShape(r) /\ Starts(h, r, "restore", id, rec[id].kinds, "none")
              /\ rec[id].status = "active" /\ rec[id] \in RecordTypes
              /\ \A k \in rec[id].kinds : Regular(Stash(id, k))
              /\ rec' \in [Ids -> RecordTypes \cup {NoRecord}]
              /\ \A i \in Ids \ {id} : rec'[i] = rec[i]
              /\ rec'[id] \in RecordTypes /\ rec'[id].restoring
              /\ rec'[id].op = rec[id].op /\ rec'[id].kinds = rec[id].kinds
              /\ rec'[id].path = rec[id].path /\ rec'[id].status = rec[id].status
  <1>1. PICK id \in Ids :
          /\ rec[id].status = "active" /\ \A k \in rec[id].kinds : Regular(Stash(id, k))
          /\ rec' = [rec EXCEPT ![id].restoring = TRUE]
          /\ Start(h, "restore", id, rec[id].kinds, "none")
    BY DEF Restore
  <1>2. LibraryTypes /\ rec \in [Ids -> RecordTypes \cup {NoRecord}] /\ files' = files /\ row' = row
    BY DEF ControlInv, LibraryTypes, Restore
  <1>3. rec[id] \in RecordTypes
    <2>1. NoRecord.status = "none"
      BY DEF NoRecord
    <2> QED BY <1>1, <1>2, <2>1
  <1>4. PICK its \in RecordTypes : its = rec[id]
    BY <1>3
  <1>5. PICK new \in RecordTypes : new = [its EXCEPT !.restoring = TRUE]
    BY DEF RecordTypes
  <1>6. /\ new.restoring /\ new.op = its.op /\ new.kinds = its.kinds /\ new.path = its.path
        /\ new.status = its.status
    BY <1>5 DEF RecordTypes
  <1>7. rec' = [rec EXCEPT ![id] = new]
    BY <1>1, <1>2, <1>4, <1>5
  <1>8. its.kinds \in SUBSET Kinds /\ its.kinds # {}
    BY DEF RecordTypes
  <1>9. handler[h].pc = "idle" /\ \E r \in RequestTypes : /\ Turns(h, r) /\ SameDsts(h) /\ InShape(r)
                                    /\ Starts(h, r, "restore", id, its.kinds, "none")
    BY <1>1, <1>2, <1>4, <1>8, StartIs DEF Ops
  <1>10. PICK r \in RequestTypes : /\ Turns(h, r) /\ SameDsts(h) /\ InShape(r)
                                   /\ Starts(h, r, "restore", id, rec[id].kinds, "none")
    BY <1>4, <1>9
  <1>11. /\ rec' \in [Ids -> RecordTypes \cup {NoRecord}]
         /\ \A i \in Ids \ {id} : rec'[i] = rec[i]
         /\ rec'[id] \in RecordTypes /\ rec'[id].restoring
         /\ rec'[id].op = rec[id].op /\ rec'[id].kinds = rec[id].kinds
         /\ rec'[id].path = rec[id].path /\ rec'[id].status = rec[id].status
    BY <1>2, <1>4, <1>6, <1>7
  <1> QED BY <1>1, <1>2, <1>3, <1>9, <1>10, <1>11

LEMMA RenameIs ==
  ASSUME ControlInv, NEW h \in Handlers, Rename(h)
  PROVE  /\ Quiet /\ SameDsts(h) /\ handler[h].pc = "idle"
         /\ \E to \in Paths, r \in RequestTypes :
              /\ Turns(h, r) /\ InShape(r) /\ Starts(h, r, "rename", Nowhere, {"source"}, to)
  <1>1. PICK to \in Paths : Start(h, "rename", Nowhere, {"source"}, to)
    BY DEF Rename
  <1>2. LibraryTypes /\ Quiet
    BY DEF ControlInv, Rename, Quiet
  <1>3. "rename" \in Ops /\ {"source"} \in SUBSET Kinds /\ {"source"} # {}
    BY DEF Ops, Kinds
  <1>4. handler[h].pc = "idle" /\ \E r \in RequestTypes : /\ Turns(h, r) /\ SameDsts(h) /\ InShape(r)
                                    /\ Starts(h, r, "rename", Nowhere, {"source"}, to)
    BY <1>1, <1>2, <1>3, StartIs
  <1> QED BY <1>2, <1>4

LEMMA PublishIs ==
  ASSUME ControlInv, Publish
  PROVE  /\ rec' = rec /\ row' \in Rows /\ files' \in [Places -> Contents]
         /\ handler' \in [Handlers -> RequestTypes]
         /\ \E home \in Places :
              /\ home = Home("output", "compiled") /\ home \notin Stashes /\ KindOf(home) = "output"
              /\ files' = [files EXCEPT ![home] = "whole"]
              /\ \A g \in Handlers : /\ Alike(handler[g], handler'[g])
                                     /\ handler'[g].dst = FollowDst(handler[g], home, Nowhere)
  <1>1. LibraryTypes /\ files \in [Places -> Contents] /\ row \in Rows /\ rec' = rec
    BY DEF ControlInv, LibraryTypes, Publish
  <1>2. /\ Home("output", row.path) \in Places /\ Home("output", row.path) \notin Stashes
        /\ KindOf(Home("output", row.path)) = "output"
    BY <1>1, HomesAre DEF Rows, Kinds
  <1>3. PICK home \in Places : /\ home = Home("output", row.path) /\ home \notin Stashes
                               /\ KindOf(home) = "output"
    BY <1>2
  <1>4. home = Home("output", "compiled")
    BY <1>3 DEF Home
  <1>5. /\ files' = [files EXCEPT ![home] = "whole"] /\ row' = [row EXCEPT !.out = TRUE]
        /\ handler' = Follow(handler, home, Nowhere)
    BY <1>3 DEF Publish
  <1>6. row' \in Rows /\ files' \in [Places -> Contents]
    BY <1>1, <1>5 DEF Rows, Contents
  <1> QED BY <1>1, <1>3, <1>4, <1>5, <1>6, PublishTurns

LEMMA CrashIs ==
  ASSUME ControlInv, Crash
  PROVE  /\ Quiet /\ handler' \in [Handlers -> RequestTypes]
         /\ \A g \in Handlers : handler'[g] = IdleHandler
         /\ IdleHandler.op = "none" /\ IdleHandler.pc = "idle" /\ IdleHandler.todo = <<>>
         /\ ~IdleHandler.undo /\ InShape(IdleHandler)
  BY IdleShape DEF Crash, Quiet, IdleHandler

-----------------------------------------------------------------------------
(* Every step keeps requests and records as they should be.                *)

LEMMA ControlOfRequest ==
  ASSUME ControlInv, NEW h \in Handlers, Request(h), crossed' \in BOOLEAN
  PROVE  ControlInv'
  <1>1. files \in [Places -> Contents] /\ row \in Rows /\ rec \in [Ids -> RecordTypes \cup {NoRecord}]
    BY DEF ControlInv, LibraryTypes
  <1>2. CASE Rename(h)
    <2>1. PICK to \in Paths, r \in RequestTypes :
            Quiet /\ Turns(h, r) /\ InShape(r) /\ Starts(h, r, "rename", Nowhere, {"source"}, to)
      BY <1>2, RenameIs
    <2>2. GoesOn(handler[h], r)
      BY <2>1 DEF Starts, GoesOn
    <2> QED BY <1>1, <2>1, <2>2, ControlStays DEF Quiet
  <1>3. CASE TrashOrDelete(h)
    <2>1. PICK op \in {"trash", "delete"}, kinds \in SUBSET Kinds, id \in Ids, r \in RequestTypes :
            /\ files' = files /\ row' = row
            /\ Turns(h, r) /\ InShape(r) /\ Starts(h, r, op, id, kinds, "none")
            /\ rec[id] = NoRecord /\ Pending(op, kinds) \in RecordTypes
            /\ rec' = [rec EXCEPT ![id] = Pending(op, kinds)]
      BY <1>3, TrashOrDeleteIs
    <2>2. /\ handler' \in [Handlers -> RequestTypes] /\ handler'[h] = r
          /\ \A g \in Handlers \ {h} : Alike(handler[g], handler'[g])
      BY <2>1 DEF Turns
    <2>3. /\ rec' \in [Ids -> RecordTypes \cup {NoRecord}]
          /\ rec'[id] = Pending(op, kinds) /\ \A i \in Ids \ {id} : rec'[i] = rec[i]
      BY <1>1, <2>1
    <2>4. LibraryTypes'
      BY <1>1, <2>1, <2>2, <2>3 DEF LibraryTypes
    <2>5. \A g \in Handlers : InShape(handler'[g])
      BY <2>1, <2>2, AlikeShape DEF ControlInv, LibraryTypes
    <2>6. \A g \in Handlers \ {h} : handler'[g].id # id
      <3> SUFFICES ASSUME NEW g \in Handlers \ {h}
                   PROVE  handler'[g].id # id
        OBVIOUS
      <3>1. handler'[g].op = handler[g].op /\ handler'[g].id = handler[g].id
        BY <2>2 DEF Alike
      <3>2. CASE handler[g].op \in {"trash", "delete", "restore"}
        <4>1. rec[handler[g].id] \in RecordTypes
          BY <3>2 DEF ControlInv, Recorded, RecordedAs
        <4>2. NoRecord.status \notin Statuses
          BY DEF NoRecord, Statuses
        <4>3. rec[handler[g].id] # rec[id]
          BY <4>1, <4>2, <2>1 DEF RecordTypes
        <4> QED BY <3>1, <4>3
      <3>3. CASE handler[g].op \notin {"trash", "delete", "restore"}
        BY <3>1, <3>3, LibraryAssumption DEF ControlInv, InShape
      <3> QED BY <3>2, <3>3
    <2>7. r.op = op /\ r.id = id /\ r.kinds = kinds /\ r.pc = "move"
      BY <2>1 DEF Starts
    <2>8. \A g \in Handlers : Recorded(g)'
      <3> SUFFICES ASSUME NEW g \in Handlers, handler'[g].op \in {"trash", "delete", "restore"}
                   PROVE  RecordedAs(handler'[g], rec'[handler'[g].id])
        BY DEF Recorded
      <3>1. CASE g = h
        BY <3>1, <2>1, <2>2, <2>3, <2>7 DEF RecordedAs, Removes, Pending
      <3>2. CASE g # h
        <4>1. Alike(handler[g], handler'[g]) /\ handler'[g].id # id /\ handler'[g].id \in Ids
          BY <3>2, <2>2, <2>5, <2>6 DEF InShape
        <4>2. handler'[g].op = handler[g].op /\ handler'[g].id = handler[g].id
          BY <4>1 DEF Alike
        <4>3. rec'[handler'[g].id] = rec[handler[g].id]
          BY <4>1, <4>2, <2>3
        <4>4. RecordedAs(handler[g], rec[handler[g].id])
          BY <4>2 DEF ControlInv, Recorded
        <4> QED BY <4>1, <4>3, <4>4, AlikeRecorded
      <3> QED BY <3>1, <3>2
    <2>9. MadeAlone'
      <3> SUFFICES ASSUME NEW f \in Handlers, NEW g \in Handlers, f # g, Removes(handler'[g])
                   PROVE  handler'[f].id # handler'[g].id
        BY DEF MadeAlone
      <3>1. \A e \in Handlers \ {h} : handler'[e].op = handler[e].op /\ handler'[e].id = handler[e].id
        BY <2>2 DEF Alike
      <3> QED BY <3>1, <2>2, <2>6, <2>7 DEF ControlInv, MadeAlone, Removes
    <2> QED BY <2>4, <2>5, <2>8, <2>9 DEF ControlInv
  <1>4. CASE Restore(h)
    <2>1. PICK id \in Ids, r \in RequestTypes :
            /\ files' = files /\ row' = row
            /\ Turns(h, r) /\ InShape(r) /\ Starts(h, r, "restore", id, rec[id].kinds, "none")
            /\ rec[id].status = "active" /\ rec[id] \in RecordTypes
            /\ rec' \in [Ids -> RecordTypes \cup {NoRecord}]
            /\ \A i \in Ids \ {id} : rec'[i] = rec[i]
            /\ rec'[id] \in RecordTypes /\ rec'[id].restoring
            /\ rec'[id].op = rec[id].op /\ rec'[id].kinds = rec[id].kinds
            /\ rec'[id].path = rec[id].path /\ rec'[id].status = rec[id].status
      BY <1>4, RestoreIs
    <2>2. /\ handler' \in [Handlers -> RequestTypes] /\ handler'[h] = r
          /\ \A g \in Handlers \ {h} : Alike(handler[g], handler'[g])
      BY <2>1 DEF Turns
    <2>3. LibraryTypes'
      BY <1>1, <2>1, <2>2 DEF LibraryTypes
    <2>4. \A g \in Handlers : InShape(handler'[g])
      BY <2>1, <2>2, AlikeShape DEF ControlInv, LibraryTypes
    <2>5. r.op = "restore" /\ r.id = id /\ r.kinds = rec[id].kinds
      BY <2>1 DEF Starts
    <2>6. \A g \in Handlers \ {h} : Removes(handler'[g]) => handler'[g].id # id
      <3> SUFFICES ASSUME NEW g \in Handlers \ {h}, Removes(handler'[g])
                   PROVE  handler'[g].id # id
        OBVIOUS
      <3>1. handler'[g].op = handler[g].op /\ handler'[g].id = handler[g].id
        BY <2>2 DEF Alike
      <3>2. rec[handler[g].id].status \in {"staged", "pending"}
        BY <3>1 DEF ControlInv, Recorded, RecordedAs, Removes
      <3> QED BY <3>1, <3>2, <2>1
    <2>7. \A g \in Handlers : Recorded(g)'
      <3> SUFFICES ASSUME NEW g \in Handlers, handler'[g].op \in {"trash", "delete", "restore"}
                   PROVE  RecordedAs(handler'[g], rec'[handler'[g].id])
        BY DEF Recorded
      <3>1. CASE g = h
        BY <3>1, <2>1, <2>2, <2>5 DEF RecordedAs, Removes
      <3>2. CASE g # h
        <4>1. Alike(handler[g], handler'[g]) /\ handler'[g].id \in Ids
          BY <3>2, <2>2, <2>4 DEF InShape
        <4>2. handler'[g].op = handler[g].op /\ handler'[g].id = handler[g].id
          BY <4>1 DEF Alike
        <4>3. RecordedAs(handler[g], rec[handler[g].id])
          BY <4>2 DEF ControlInv, Recorded
        <4>4. CASE handler[g].id # id
          BY <4>1, <4>2, <4>3, <4>4, <2>1, AlikeRecorded
        <4>5. CASE handler[g].id = id
          <5>1. ~Removes(handler[g])
            BY <4>2, <4>5, <2>6, <3>2 DEF Removes
          <5>2. RecordedAs(handler[g], rec'[id])
            BY <5>1, <4>3, <4>5, <2>1 DEF RecordedAs
          <5> QED BY <5>2, <4>1, <4>2, <4>5, AlikeRecorded
        <4> QED BY <4>4, <4>5
      <3> QED BY <3>1, <3>2
    <2>8. MadeAlone'
      <3> SUFFICES ASSUME NEW f \in Handlers, NEW g \in Handlers, f # g, Removes(handler'[g])
                   PROVE  handler'[f].id # handler'[g].id
        BY DEF MadeAlone
      <3>1. \A e \in Handlers \ {h} : handler'[e].op = handler[e].op /\ handler'[e].id = handler[e].id
        BY <2>2 DEF Alike
      <3> QED BY <3>1, <2>2, <2>5, <2>6 DEF ControlInv, MadeAlone, Removes
    <2> QED BY <2>3, <2>4, <2>7, <2>8 DEF ControlInv
  <1> QED BY <1>2, <1>3, <1>4 DEF Request

LEMMA ControlOfMoves ==
  ASSUME ControlInv, NEW h \in Handlers, crossed' \in BOOLEAN,
         Check(h) \/ Move(h) \/ Copied(h) \/ Unlink(h) \/ Failure(h)
  PROVE  ControlInv'
  <1>1. files \in [Places -> Contents] /\ row \in Rows
    BY DEF ControlInv, LibraryTypes
  <1>2. CASE Check(h) \/ Failure(h)
    <2>1. Quiet /\ \E r \in RequestTypes : Turns(h, r) /\ InShape(r) /\ GoesOn(handler[h], r)
      BY <1>2, CheckIs, FailureIs
    <2> QED BY <1>1, <2>1, ControlStays DEF Quiet
  <1>3. CASE Move(h)
    <2>1. /\ FilesOnly /\ files' \in [Places -> Contents]
          /\ \E r \in RequestTypes : Turns(h, r) /\ InShape(r) /\ GoesOn(handler[h], r)
      BY <1>3, MoveIs
    <2> QED BY <1>1, <2>1, ControlStays DEF FilesOnly
  <1>4. CASE Copied(h)
    <2>1. /\ FilesOnly /\ files' \in [Places -> Contents]
          /\ \E r \in RequestTypes : Turns(h, r) /\ InShape(r) /\ GoesOn(handler[h], r)
      BY <1>4, CopiedIs
    <2> QED BY <1>1, <2>1, ControlStays DEF FilesOnly
  <1>5. CASE Unlink(h)
    <2>1. /\ FilesOnly /\ files' \in [Places -> Contents]
          /\ \E r \in RequestTypes : Turns(h, r) /\ InShape(r) /\ GoesOn(handler[h], r)
      BY <1>5, UnlinkIs
    <2> QED BY <1>1, <2>1, ControlStays DEF FilesOnly
  <1> QED BY <1>2, <1>3, <1>4, <1>5

LEMMA ControlOfEnds ==
  ASSUME ControlInv, NEW h \in Handlers, crossed' \in BOOLEAN,
         Commit(h) \/ Mark(h) \/ Purge(h) \/ Complete(h)
  PROVE  ControlInv'
  <1>1. files \in [Places -> Contents] /\ row \in Rows
    BY DEF ControlInv, LibraryTypes
  <1>2. IdleHandler \in RequestTypes /\ InShape(IdleHandler) /\ IdleHandler.op = "none"
    BY IdleShape DEF IdleHandler
  <1>3. CASE Commit(h)
    <2>1. /\ files' = files /\ row' \in Rows
          /\ \E r \in RequestTypes :
              /\ Turns(h, r) /\ InShape(r)
              /\ \/ /\ handler[h].op = "trash" /\ r = IdleHandler
                    /\ StatusBecomes(handler[h].id, "active")
                 \/ /\ handler[h].op = "delete" /\ Goes(handler[h], r, "purge")
                    /\ StatusBecomes(handler[h].id, "staged")
                 \/ /\ handler[h].op = "restore" /\ r = IdleHandler
                    /\ StatusBecomes(handler[h].id, "restored")
                 \/ /\ handler[h].op = "rename" /\ r = IdleHandler /\ rec' = rec
      BY <1>3, CommitIs
    <2>2. PICK r \in RequestTypes :
              /\ Turns(h, r) /\ InShape(r)
              /\ \/ /\ handler[h].op = "trash" /\ r = IdleHandler
                    /\ StatusBecomes(handler[h].id, "active")
                 \/ /\ handler[h].op = "delete" /\ Goes(handler[h], r, "purge")
                    /\ StatusBecomes(handler[h].id, "staged")
                 \/ /\ handler[h].op = "restore" /\ r = IdleHandler
                    /\ StatusBecomes(handler[h].id, "restored")
                 \/ /\ handler[h].op = "rename" /\ r = IdleHandler /\ rec' = rec
      BY <2>1
    <2>3. CASE handler[h].op = "trash" /\ r = IdleHandler /\ StatusBecomes(handler[h].id, "active")
      BY <1>1, <1>2, <2>1, <2>2, <2>3, ControlStatus DEF StatusFits, Removes
    <2>4. CASE handler[h].op = "delete" /\ Goes(handler[h], r, "purge")
               /\ StatusBecomes(handler[h].id, "staged")
      <3>1. StatusFits(handler[h], r, "staged")
        BY <2>4 DEF StatusFits, Goes
      <3> QED BY <1>1, <2>1, <2>2, <2>4, <3>1, ControlStatus
    <2>5. CASE handler[h].op = "restore" /\ r = IdleHandler /\ StatusBecomes(handler[h].id, "restored")
      BY <1>1, <1>2, <2>1, <2>2, <2>5, ControlStatus DEF StatusFits
    <2>6. CASE r = IdleHandler /\ rec' = rec
      BY <1>1, <1>2, <2>1, <2>2, <2>6, ControlStays DEF GoesOn
    <2> QED BY <2>2, <2>3, <2>4, <2>5, <2>6
  <1>4. CASE Mark(h)
    <2>1. /\ files' = files /\ row' = row /\ Turns(h, IdleHandler)
          /\ \/ Removes(handler[h]) /\ StatusBecomes(handler[h].id, "failed")
             \/ handler[h].op = "restore" /\ StatusBecomes(handler[h].id, rec[handler[h].id].status)
      BY <1>4, MarkIs
    <2>2. CASE Removes(handler[h]) /\ StatusBecomes(handler[h].id, "failed")
      BY <1>1, <1>2, <2>1, <2>2, ControlStatus DEF StatusFits
    <2>3. CASE handler[h].op = "restore" /\ StatusBecomes(handler[h].id, rec[handler[h].id].status)
      <3>1. rec[handler[h].id].status \in {"active", "restored"}
        BY <2>3 DEF ControlInv, Recorded, RecordedAs
      <3>2. StatusFits(handler[h], IdleHandler, rec[handler[h].id].status)
        BY <1>2, <2>3, <3>1 DEF StatusFits
      <3> QED BY <1>1, <1>2, <2>1, <2>3, <3>2, ControlStatus
    <2> QED BY <2>1, <2>2, <2>3
  <1>5. CASE Purge(h)
    <2>1. /\ row' = row /\ rec' = rec /\ files' \in [Places -> Contents] /\ handler[h].pc = "purge"
          /\ \E r \in RequestTypes : Turns(h, r) /\ InShape(r) /\ Goes(handler[h], r, "complete")
      BY <1>5, PurgeIs
    <2>2. PICK r \in RequestTypes : Turns(h, r) /\ InShape(r) /\ Goes(handler[h], r, "complete")
      BY <2>1
    <2>3. GoesOn(handler[h], r)
      BY <2>1, <2>2 DEF Goes, GoesOn
    <2> QED BY <1>1, <2>1, <2>2, <2>3, ControlStays
  <1>6. CASE Complete(h)
    <2>1. /\ files' = files /\ row' = row /\ handler[h].op = "delete"
          /\ Turns(h, IdleHandler) /\ \E status : StatusBecomes(handler[h].id, status)
      BY <1>6, CompleteIs
    <2>2. PICK status : StatusBecomes(handler[h].id, status)
      BY <2>1
    <2>3. StatusFits(handler[h], IdleHandler, status)
      BY <1>2, <2>1 DEF StatusFits, Removes
    <2> QED BY <1>1, <1>2, <2>1, <2>2, <2>3, ControlStatus
  <1> QED BY <1>3, <1>4, <1>5, <1>6

LEMMA ControlOfOthers ==
  ASSUME ControlInv, crossed' \in BOOLEAN, Publish \/ Crash
  PROVE  ControlInv'
  <1>1. files \in [Places -> Contents] /\ row \in Rows /\ rec \in [Ids -> RecordTypes \cup {NoRecord}]
    BY DEF ControlInv, LibraryTypes
  <1>2. CASE Crash
    BY <1>1, <1>2, CrashIs DEF ControlInv, LibraryTypes, Quiet, Recorded, MadeAlone, Removes
  <1>3. CASE Publish
    <2>1. /\ rec' = rec /\ row' \in Rows /\ files' \in [Places -> Contents]
          /\ handler' \in [Handlers -> RequestTypes]
          /\ \A g \in Handlers : Alike(handler[g], handler'[g])
      BY <1>3, PublishIs
    <2>2. LibraryTypes'
      BY <1>1, <2>1 DEF LibraryTypes
    <2>3. \A g \in Handlers : InShape(handler'[g])
      BY <2>1, AlikeShape DEF ControlInv, LibraryTypes
    <2>4. \A g \in Handlers : handler'[g].op = handler[g].op /\ handler'[g].id = handler[g].id
      BY <2>1 DEF Alike
    <2>5. \A g \in Handlers : Recorded(g)'
      BY <2>1, <2>4, AlikeRecorded DEF ControlInv, Recorded
    <2>6. MadeAlone'
      BY <2>4 DEF ControlInv, MadeAlone, Removes
    <2> QED BY <2>2, <2>3, <2>5, <2>6 DEF ControlInv
  <1> QED BY <1>2, <1>3

LEMMA ControlStep ==
  ASSUME ControlInv, [Next]_vars
  PROVE  ControlInv'
  <1>1. CASE UNCHANGED vars
    BY <1>1 DEF vars, ControlInv, LibraryTypes, Recorded, MadeAlone
  <1>2. CASE Next
    <2>1. Action /\ crossed' \in BOOLEAN
      BY <1>2 DEF Next
    <2>2. CASE Publish \/ Crash
      BY <2>1, <2>2, ControlOfOthers
    <2>3. CASE \E h \in Handlers : Request(h) \/ Step(h) \/ Failure(h)
      BY <2>1, <2>3, ControlOfRequest, ControlOfMoves, ControlOfEnds DEF Step
    <2> QED BY <2>1, <2>2, <2>3 DEF Action
  <1> QED BY <1>1, <1>2

LEMMA ControlStart ==
  ASSUME Init
  PROVE  ControlInv
  <1>1. IdleHandler.op = "none" /\ IdleHandler.id = Nowhere
    BY DEF IdleHandler
  <1>2. LibraryTypes
    <2>1. files \in [Places -> Contents] /\ rec \in [Ids -> RecordTypes \cup {NoRecord}]
          /\ crossed \in BOOLEAN
      BY DEF Init, Contents
    <2>2. row \in Rows
      BY DEF Init, Rows
    <2>3. handler \in [Handlers -> RequestTypes]
      BY IdleShape DEF Init
    <2> QED BY <2>1, <2>2, <2>3 DEF LibraryTypes
  <1> QED BY <1>1, <1>2, IdleShape DEF Init, ControlInv, Recorded, MadeAlone, Removes

-----------------------------------------------------------------------------
(* The second part of the invariant: what lies in the trash.               *)

ApartFiles == Apart \/ \A place \in Places : files[place] \in {"none", "whole"}

StashInv ==
  /\ EveryFileHasRecord
  /\ \A h \in Handlers, kind \in Kinds : Held(h, kind)
  /\ \A h \in Handlers : Written(h)
  /\ \A h \in Handlers : Removed(h)
  /\ ApartFiles

LEMMA MovingPcs ==
  ASSUME NEW h \in Handlers
  PROVE  handler[h].pc \in {"check", "move", "copying", "unlink"} => Moving(handler[h])
  BY DEF Moving

\* A step of a request changes no other record's files in the trash.
LEMMA StashSame ==
  ASSUME ControlInv, NEW h \in Handlers, Written(h), Step(h) \/ Request(h) \/ Failure(h),
         NEW i \in Ids, NEW k \in Kinds, i # handler[h].id
  PROVE  files'[Stash(i, k)] = files[Stash(i, k)]
  <1> DEFINE own == handler[h]
             src == Ends(h).src
             dst == Ends(h).dst
             place == Stash(i, k)
  <1>1. place \in Places /\ place \in Stashes /\ files \in [Places -> Contents]
    BY StashesAre DEF ControlInv, LibraryTypes
  <1>2. ASSUME Moving(own) PROVE src # place /\ dst # place
    <2>1. Stash(own.id, Head(own.todo)) # place
      BY StashesDiffer
    <2> DEFINE path == IF own.op = "restore" THEN rec[own.id].path ELSE own.row.path
    <2>2. /\ Head(own.todo) \in Kinds /\ path \in Paths
          /\ own.op = "rename" => /\ Head(own.todo) = "source" /\ src = Home("source", path)
                                     /\ dst = Home("source", own.to) /\ own.to \in Paths
          /\ own.op # "rename" /\ Stashing(own) =>
                  src = Home(Head(own.todo), path) /\ dst = Stash(own.id, Head(own.todo)) /\ own.id \in Ids
          /\ ~Stashing(own) =>
                  /\ src = Stash(own.id, Head(own.todo)) /\ dst = Home(Head(own.todo), path) /\ own.id \in Ids
                  /\ own.op # "rename"
      BY <1>2, EndsOfRequest
    <2>3. Home(Head(own.todo), path) # place
      BY <1>1, <2>2, HomesAre
    <2>4. own.op = "rename" => dst # place
      BY <1>1, <2>2, HomesAre
    <2> HIDE DEF path, src, dst, place
    <2> QED BY <2>1, <2>2, <2>3, <2>4
  <1>3. CASE Move(h)
    <2>1. Moving(own) /\ \E r \in RequestTypes : MoveFails(h, r) \/ MoveAtOnce(h, r) \/ MoveCopies(h, r)
      BY <1>3, MoveIs, MovingPcs
    <2> QED BY <2>1, <1>1, <1>2 DEF MoveFails, MoveAtOnce, MoveCopies, Quiet
  <1>4. CASE Copied(h)
    <2>1. Moving(own) /\ own.pc = "copying" 
          /\ files' = IF own.dst = Nowhere THEN files ELSE [files EXCEPT ![own.dst] = own.got]
      BY <1>4, CopiedIs, MovingPcs
    <2>2. own.dst # Nowhere => own.dst # place
      BY <1>1, <1>2, <2>1 DEF Written
    <2> QED BY <2>1, <2>2, <1>1
  <1>5. CASE Unlink(h)
    <2>1. Moving(own) /\ \E r \in RequestTypes : UnlinkFails(h, r) \/ UnlinkAtOnce(h, r)
      BY <1>5, UnlinkIs, MovingPcs
    <2> QED BY <2>1, <1>1, <1>2 DEF UnlinkFails, UnlinkAtOnce, Quiet
  <1>6. CASE Purge(h)
    <2>1. PICK gone \in SUBSET own.kinds :
            files' = [p \in Places |-> IF p \in {own.id} \X gone THEN "none" ELSE files[p]]
      BY <1>6, PurgeIs
    <2>2. place \notin {own.id} \X gone
      BY DEF Stash
    <2> QED BY <2>1, <2>2, <1>1
  <1>7. CASE Check(h) \/ Failure(h) \/ Request(h) \/ Commit(h) \/ Mark(h) \/ Complete(h)
    <2>1. CASE Check(h) \/ Failure(h)
      BY <2>1, CheckIs, FailureIs DEF Quiet
    <2>2. CASE Request(h)
      BY <2>2 DEF Request, TrashOrDelete, Restore, Rename
    <2>3. CASE Commit(h) \/ Mark(h) \/ Complete(h)
      BY <2>3 DEF Commit, Mark, Complete
    <2> QED BY <1>7, <2>1, <2>2, <2>3
  <1> QED BY <1>3, <1>4, <1>5, <1>6, <1>7 DEF Step

LEMMA AlikeHolds ==
  ASSUME NEW a, NEW b, Alike(a, b), NEW k
  PROVE  Holds(b, k) <=> Holds(a, k)
  BY DEF Alike, Holds

LEMMA HeldStep ==
  ASSUME NEW h \in Handlers, NEW r \in RequestTypes, Turns(h, r),
         \A g \in Handlers, k \in Kinds : Held(g, k),
         \A k \in Kinds : Holds(r, k) =>
           /\ files'[Stash(r.id, k)] = "none" /\ rec'[r.id].status = "active"
           /\ \A g \in Handlers \ {h} : ~ (Holds(handler[g], k) /\ handler[g].id = r.id),
         \A g \in Handlers \ {h}, k \in Kinds : Holds(handler[g], k) =>
           files'[Stash(handler[g].id, k)] = "none" /\ rec'[handler[g].id].status = "active"
  PROVE  \A g \in Handlers, k \in Kinds : Held(g, k)'
  <1>1. /\ handler'[h] = r
        /\ \A g \in Handlers \ {h} : /\ handler'[g].id = handler[g].id
                                     /\ \A k \in Kinds : Holds(handler'[g], k) <=> Holds(handler[g], k)
    <2>1. \A g \in Handlers \ {h} : Alike(handler[g], handler'[g]) /\ handler'[g].id = handler[g].id
      BY DEF Turns, Alike
    <2> QED BY <2>1, AlikeHolds DEF Turns
  <1>2. SUFFICES ASSUME NEW g \in Handlers, NEW k \in Kinds, Holds(handler'[g], k)
                 PROVE  /\ files'[Stash(handler'[g].id, k)] = "none"
                        /\ rec'[handler'[g].id].status = "active"
                        /\ \A f \in Handlers \ {g} : 
                             ~ (Holds(handler'[f], k) /\ handler'[f].id = handler'[g].id)
    BY DEF Held
  <1>3. CASE g = h
    BY <1>1, <1>2, <1>3
  <1>4. CASE g # h
    <2>1. Holds(handler[g], k) /\ handler'[g].id = handler[g].id
      BY <1>1, <1>2, <1>4
    <2>2. \A f \in Handlers \ {g} : ~ (Holds(handler[f], k) /\ handler[f].id = handler[g].id)
      BY <2>1 DEF Held
    <2>3. ~ (Holds(r, k) /\ r.id = handler[g].id)
      BY <1>4, <2>1
    <2>4. \A f \in Handlers \ {g} : ~ (Holds(handler'[f], k) /\ handler'[f].id = handler'[g].id)
      BY <1>1, <2>1, <2>2, <2>3
    <2> QED BY <1>4, <2>1, <2>4
  <1> QED BY <1>3, <1>4

\* What a request has out of the trash after it failed, advanced or went on.
LEMMA FailsHolds ==
  ASSUME NEW own \in RequestTypes, InShape(own), NEW r, Fails(own, r), NEW k \in Kinds, Holds(r, k)
  PROVE  r.id = own.id /\ Holds(own, k)
  <1>1. own.op = "restore" /\ r.id = own.id /\ r.undo = TRUE
    BY DEF Fails, Holds, IdleHandler
  <1>2. own.todo \in Orders /\ own.moved \in Orders /\ own.undo \in BOOLEAN
    BY DEF RequestTypes
  <1>3. r.todo = (IF own.undo THEN Tail(own.todo) ELSE Reverse(own.moved))
    BY <1>1 DEF Fails
  <1>4. k \in ToSet(r.todo)
    BY <1>1 DEF Holds
  <1>5. CASE own.undo
    <2>1. r.todo = Tail(own.todo)
      BY <1>3, <1>5
    <2>2. CASE own.todo = <<>>
      <3>1. r.op = own.op /\ r.pc = IF r.todo = <<>> THEN "mark" ELSE "check"
        BY <1>1 DEF Fails
      <3>2. Tail(<<>>) = <<>>
        OBVIOUS
      <3> QED BY <2>1, <2>2, <3>2, <1>4, OrdersEmpty
    <2>3. CASE own.todo # <<>>
      <3>1. k \in ToSet(own.todo) /\ k # Head(own.todo)
        BY <1>2, <1>4, <2>1, <2>3, OrdersFirst
      <3> QED BY <1>1, <1>5, <3>1 DEF Holds
    <2> QED BY <2>2, <2>3
  <1>6. CASE ~own.undo
    BY <1>1, <1>2, <1>3, <1>4, <1>6, OrdersBack DEF Holds
  <1> QED BY <1>2, <1>5, <1>6

LEMMA AdvancesHolds ==
  ASSUME NEW own \in RequestTypes, InShape(own), Moving(own), NEW r, Advances(own, r),
         NEW k \in Kinds, Holds(r, k)
  PROVE  r.id = own.id /\ \/ Holds(own, k) /\ k # Head(own.todo)
                          \/ k = Head(own.todo) /\ own.op = "restore" /\ ~own.undo
  <1>1. own.op = "restore" /\ r.id = own.id /\ r.undo = own.undo /\ own.undo \in BOOLEAN
    BY DEF Advances, Holds, RequestTypes
  <1>2. own.todo \in Orders /\ own.moved \in Orders /\ own.todo # <<>>
    BY DEF RequestTypes, InShape
  <1>3. CASE own.undo
    <2>1. r.todo = Tail(own.todo) /\ k \in ToSet(r.todo)
      BY <1>1, <1>3 DEF Advances, Holds
    <2>2. k \in ToSet(own.todo) /\ k # Head(own.todo)
      BY <1>2, <2>1, OrdersFirst
    <2> QED BY <1>1, <1>3, <2>2 DEF Holds
  <1>4. CASE ~own.undo
    <2>1. r.moved = Append(own.moved, Head(own.todo)) /\ k \in ToSet(r.moved)
      BY <1>1, <1>4 DEF Advances, Holds
    <2>2. Head(own.todo) \in Kinds /\ Head(own.todo) \notin ToSet(own.moved)
      BY <1>2, <1>4, OrdersFirst DEF InShape
    <2>3. k \in ToSet(own.moved) \/ k = Head(own.todo)
      BY <1>2, <2>1, <2>2, OrdersLast
    <2> QED BY <1>1, <1>4, <2>2, <2>3 DEF Holds
  <1> QED BY <1>1, <1>3, <1>4

LEMMA GoesHolds ==
  ASSUME NEW own, NEW pc, NEW r, Goes(own, r, pc), NEW k \in Kinds, Holds(r, k),
         pc \in {"copying", "unlink"} \/ own.pc \notin {"copying", "unlink"}
  PROVE  /\ r.id = own.id /\ Holds(own, k)
         /\ pc = "copying" /\ own.undo => k # Head(own.todo)
  BY DEF Goes, Holds

\* A record that has, or may have, files in the trash.
Open == {"pending", "active", "failed", "staged", "completed_with_residue"}

\* A restore that holds a file, or finds one, is of an active record.
LEMMA FilesInRecord ==
  ASSUME EveryFileHasRecord, NEW i \in Ids, NEW k \in Kinds, files[Stash(i, k)] # "none"
  PROVE  k \in rec[i].kinds /\ rec[i].status \in Open
  BY DEF EveryFileHasRecord, Open

\* No other restore holds the file that a request puts into the trash.
LEMMA NoOtherHolder ==
  ASSUME ControlInv, NEW h \in Handlers, handler[h].op # "rename", Stashing(handler[h]),
         handler[h].pc = "move", NEW g \in Handlers \ {h},
         \A e \in Handlers, k \in Kinds : Held(e, k), Holds(handler[g], Head(handler[h].todo))
  PROVE  handler[g].id # handler[h].id
  <1> DEFINE own == handler[h]
  <1>1. Moving(own) /\ InShape(own)
    BY DEF ControlInv, Moving
  <1>2. own.op \in {"trash", "delete", "restore"} /\ own.undo \in BOOLEAN
    BY <1>1 DEF ControlInv, LibraryTypes, RequestTypes, InShape, Ops
  <1>3. Head(own.todo) \in Kinds /\ Head(own.todo) \in ToSet(own.todo)
    BY <1>1, EndsOfRequest
  <1>4. CASE Removes(own)
    BY <1>4 DEF ControlInv, MadeAlone
  <1>5. CASE own.op = "restore"
    <2>1. own.undo
      BY <1>2, <1>5 DEF Stashing
    <2>2. Holds(own, Head(own.todo))
      BY <1>3, <1>5, <2>1 DEF Holds
    <2> QED BY <1>3, <2>2 DEF Held
  <1> QED BY <1>2, <1>4, <1>5 DEF Removes

\* Only a request that moves its file into the trash adds one there.
LEMMA Enters ==
  ASSUME ControlInv, NEW h \in Handlers, Written(h), Step(h) \/ Request(h) \/ Failure(h),
         NEW i \in Ids, NEW k \in Kinds,
         files[Stash(i, k)] = "none", files'[Stash(i, k)] # "none"
  PROVE  /\ Move(h) /\ handler[h].pc = "move" /\ Moving(handler[h])
         /\ handler[h].op # "rename" /\ Stashing(handler[h])
         /\ i = handler[h].id /\ k = Head(handler[h].todo) /\ k \in handler[h].kinds
         /\ Ends(h).dst = Stash(i, k)
  <1> DEFINE own == handler[h]
             src == Ends(h).src
             dst == Ends(h).dst
             place == Stash(i, k)
  <1>1. place \in Places /\ place \in Stashes /\ files \in [Places -> Contents]
    BY StashesAre DEF ControlInv, LibraryTypes
  <1>2. files[place] = "none" /\ files'[place] # "none"
    OBVIOUS
  <1>3. CASE Move(h)
    <2>1. own.pc = "move" /\ Moving(own)
      BY <1>3, MoveIs, MovingPcs
    <2>2. PICK r \in RequestTypes : MoveFails(h, r) \/ MoveAtOnce(h, r) \/ MoveCopies(h, r)
      BY <1>3, MoveIs
    <2>3. src \in Places /\ dst \in Places
      BY <2>1, EndsOfRequest
    <2>4. dst = place
      <3> HIDE DEF src, dst, place
      <3>1. CASE MoveFails(h, r)
        BY <1>2, <3>1 DEF MoveFails, Quiet
      <3>2. CASE MoveAtOnce(h, r)
        <4>1. files' = [files EXCEPT ![src] = "none", ![dst] = files[src]]
          BY <3>2 DEF MoveAtOnce, src, dst
        <4> QED BY <1>1, <1>2, <2>3, <4>1
      <3>3. CASE MoveCopies(h, r)
        <4>1. files' = [files EXCEPT ![dst] = "part"]
          BY <3>3 DEF MoveCopies, dst
        <4> QED BY <1>1, <1>2, <2>3, <4>1
      <3> QED BY <2>2, <3>1, <3>2, <3>3
    <2> DEFINE path == IF own.op = "restore" THEN rec[own.id].path ELSE own.row.path
    <2>5. /\ Head(own.todo) \in Kinds /\ Head(own.todo) \in own.kinds /\ path \in Paths
          /\ own.op = "rename" => dst = Home("source", own.to) /\ own.to \in Paths /\ Head(own.todo) = "source"
          /\ own.op # "rename" /\ Stashing(own) => dst = Stash(own.id, Head(own.todo))
          /\ ~Stashing(own) => dst = Home(Head(own.todo), path)
      BY <2>1, EndsOfRequest
    <2>6. own.op # "rename" /\ Stashing(own)
      <3> HIDE DEF path, dst, place
      <3> QED BY <1>1, <2>4, <2>5, HomesAre
    <2>7. Stash(own.id, Head(own.todo)) = Stash(i, k)
      BY <2>4, <2>5, <2>6
    <2>8. own.id = i /\ Head(own.todo) = k
      BY <2>7, StashesDiffer
    <2> HIDE DEF dst
    <2> QED BY <1>3, <2>1, <2>4, <2>5, <2>6, <2>8 DEF dst
  <1>4. CASE Copied(h)
    <2>1. /\ own.pc = "copying"
          /\ files' = IF own.dst = Nowhere THEN files ELSE [files EXCEPT ![own.dst] = own.got]
      BY <1>4, CopiedIs
    <2>2. own.dst # Nowhere => own.dst # place
      BY <1>2, <2>1 DEF Written
    <2> QED BY <1>1, <1>2, <2>1, <2>2
  <1>5. CASE Unlink(h)
    <2>1. Moving(own)
      BY <1>5, UnlinkIs, MovingPcs
    <2>2. PICK r \in RequestTypes : UnlinkFails(h, r) \/ UnlinkAtOnce(h, r)
      BY <1>5, UnlinkIs
    <2>3. src \in Places
      BY <2>1, EndsOfRequest
    <2> HIDE DEF src, place
    <2>4. files' = files \/ files' = [files EXCEPT ![src] = "none"]
      BY <2>2 DEF UnlinkFails, UnlinkAtOnce, Quiet, src
    <2> QED BY <1>1, <1>2, <2>3, <2>4
  <1>6. CASE Purge(h)
    <2>1. PICK gone \in SUBSET own.kinds :
            files' = [p \in Places |-> IF p \in {own.id} \X gone THEN "none" ELSE files[p]]
      BY <1>6, PurgeIs
    <2> HIDE DEF place, own
    <2> QED BY <1>1, <1>2, <2>1
  <1>7. CASE Check(h) \/ Failure(h) \/ Request(h) \/ Commit(h) \/ Mark(h) \/ Complete(h)
    <2>1. CASE Check(h) \/ Failure(h)
      BY <1>2, <2>1, CheckIs, FailureIs DEF Quiet
    <2>2. CASE Request(h)
      BY <1>2, <2>2 DEF Request, TrashOrDelete, Restore, Rename
    <2>3. CASE Commit(h) \/ Mark(h) \/ Complete(h)
      BY <1>2, <2>3 DEF Commit, Mark, Complete
    <2> QED BY <1>7, <2>1, <2>2, <2>3
  <1> QED BY <1>3, <1>4, <1>5, <1>6, <1>7 DEF Step

\* What a restore holds stays out of the trash while another request takes a step.
LEMMA HeldByOthers ==
  ASSUME ControlInv, NEW h \in Handlers, \A e \in Handlers, k \in Kinds : Held(e, k),
         Written(h), Step(h) \/ Request(h) \/ Failure(h),
         NEW g \in Handlers \ {h}, NEW k \in Kinds, Holds(handler[g], k)
  PROVE  files'[Stash(handler[g].id, k)] = "none"
  <1>1. files[Stash(handler[g].id, k)] = "none"
    BY DEF Held
  <1>2. handler[g].id \in Ids
    BY DEF ControlInv, InShape, Holds
  <1> SUFFICES ASSUME files'[Stash(handler[g].id, k)] # "none" PROVE FALSE
    OBVIOUS
  <1>3. /\ handler[h].pc = "move" /\ handler[h].op # "rename" /\ Stashing(handler[h])
        /\ handler[g].id = handler[h].id /\ k = Head(handler[h].todo)
    BY <1>1, <1>2, Enters
  <1> QED BY <1>3, NoOtherHolder

\* What a request holds after it has moved a file.
LEMMA HeldByAdvance ==
  ASSUME ControlInv, StashInv, NEW h \in Handlers, handler[h].pc \in {"move", "unlink"},
         NEW r \in RequestTypes, Advances(handler[h], r), Regular(Ends(h).src),
         handler[h].op = "restore" /\ ~handler[h].undo => files'[Ends(h).src] = "none",
         \A k \in Kinds : handler[h].op = "restore" /\ k # Head(handler[h].todo) =>
           files'[Stash(handler[h].id, k)] = files[Stash(handler[h].id, k)],
         NEW k \in Kinds, Holds(r, k)
  PROVE  /\ files'[Stash(r.id, k)] = "none" /\ rec[r.id].status = "active"
         /\ \A g \in Handlers \ {h} : ~ (Holds(handler[g], k) /\ handler[g].id = r.id)
  <1> DEFINE own == handler[h]
  <1>1. /\ \A g \in Handlers, l \in Kinds : Held(g, l)
        /\ EveryFileHasRecord
    BY DEF StashInv
  <1>2. own \in RequestTypes /\ InShape(own) /\ Moving(own)
    BY DEF ControlInv, LibraryTypes, Moving
  <1>3. r.id = own.id /\ own.op = "restore"
        /\ \/ Holds(own, k) /\ k # Head(own.todo)
           \/ k = Head(own.todo) /\ own.op = "restore" /\ ~own.undo
    BY <1>2, AdvancesHolds DEF Holds
  <1>4. CASE Holds(own, k) /\ k # Head(own.todo)
    BY <1>1, <1>3, <1>4 DEF Held
  <1>5. CASE k = Head(own.todo) /\ own.op = "restore" /\ ~own.undo
    <2>1. Ends(h).src = Stash(own.id, k) /\ own.id \in Ids
      BY <1>2, <1>5, EndsOfRequest DEF Stashing
    <2>2. files[Stash(own.id, k)] # "none"
      BY <2>1 DEF Regular
    <2>3. rec[own.id].status \in Open
      BY <1>1, <2>1, <2>2, FilesInRecord
    <2>4. rec[own.id].status \in {"active", "restored"}
      BY <1>5 DEF ControlInv, Recorded, RecordedAs
    <2>5. \A g \in Handlers \ {h} : ~ (Holds(handler[g], k) /\ handler[g].id = own.id)
      BY <1>1, <2>2 DEF Held
    <2> QED BY <1>3, <1>5, <2>1, <2>3, <2>4, <2>5 DEF Open
  <1> QED BY <1>3, <1>4, <1>5

\* A restore holds what it has moved, and that is not what it moves next.
LEMMA HeldNotNext ==
  ASSUME NEW own \in RequestTypes, InShape(own), Moving(own), NEW k \in Kinds, Holds(own, k),
         own.undo => k # Head(own.todo)
  PROVE  k # Head(own.todo) /\ own.op = "restore"
  <1>1. own.undo \in BOOLEAN /\ own.todo \in Orders /\ own.todo # <<>> /\ own.op = "restore"
    BY DEF RequestTypes, InShape, Holds
  <1>2. CASE ~own.undo
    <2>1. k \in ToSet(own.moved) /\ ToSet(own.todo) \cap ToSet(own.moved) = {}
      BY <1>2 DEF Holds, InShape
    <2>2. Head(own.todo) \in ToSet(own.todo)
      BY <1>1, OrdersFirst
    <2> QED BY <1>1, <2>1, <2>2
  <1> QED BY <1>1, <1>2

LEMMA OwnStash ==
  ASSUME ControlInv, NEW h \in Handlers, Moving(handler[h]), handler[h].op = "restore",
         NEW k \in Kinds, k # Head(handler[h].todo)
  PROVE  /\ Stash(handler[h].id, k) \in Places /\ Stash(handler[h].id, k) \in Stashes
         /\ Ends(h).src # Stash(handler[h].id, k) /\ Ends(h).dst # Stash(handler[h].id, k)
  <1> DEFINE own == handler[h]
             src == Ends(h).src
             dst == Ends(h).dst
             path == IF own.op = "restore" THEN rec[own.id].path ELSE own.row.path
  <1>1. /\ Head(own.todo) \in Kinds /\ path \in Paths /\ own.id \in Ids
        /\ \/ src = Home(Head(own.todo), path) /\ dst = Stash(own.id, Head(own.todo))
           \/ src = Stash(own.id, Head(own.todo)) /\ dst = Home(Head(own.todo), path)
    BY EndsOfRequest
  <1>2. Stash(own.id, k) # Stash(own.id, Head(own.todo))
    BY StashesDiffer
  <1>3. Stash(own.id, k) \in Places /\ Stash(own.id, k) \in Stashes
    BY <1>1, StashesAre
  <1> HIDE DEF path, src, dst
  <1>4. Home(Head(own.todo), path) \notin Stashes
    BY <1>1, HomesAre
  <1>5. src # Stash(own.id, k) /\ dst # Stash(own.id, k)
    BY <1>1, <1>2, <1>3, <1>4
  <1> QED BY <1>3, <1>5 DEF src, dst

LEMMA HeldOfMoves ==
  ASSUME ControlInv, StashInv, NEW h \in Handlers,
         Check(h) \/ Move(h) \/ Copied(h) \/ Unlink(h) \/ Failure(h)
  PROVE  \A g \in Handlers, k \in Kinds : Held(g, k)'
  <1> DEFINE own == handler[h]
             src == Ends(h).src
             dst == Ends(h).dst
             Alone(r, k) == \A g \in Handlers \ {h} : ~ (Holds(handler[g], k) /\ handler[g].id = r.id)
  <1>1. /\ \A g \in Handlers, k \in Kinds : Held(g, k)
        /\ Written(h) /\ EveryFileHasRecord
    BY DEF StashInv
  <1>2. own \in RequestTypes /\ InShape(own) /\ files \in [Places -> Contents]
    BY DEF ControlInv, LibraryTypes
  <1>3. rec' = rec
    BY CheckIs, MoveIs, CopiedIs, UnlinkIs, FailureIs DEF Quiet, FilesOnly
  <1>4. \A g \in Handlers \ {h}, k \in Kinds : Holds(handler[g], k) =>
          rec[handler[g].id].status = "active" /\ files[Stash(handler[g].id, k)] = "none"
    BY <1>1 DEF Held
  <1>5. \A k \in Kinds : Holds(own, k) =>
          files[Stash(own.id, k)] = "none" /\ rec[own.id].status = "active" /\ Alone(own, k)
    BY <1>1 DEF Held
  \* A failing step and one that only goes on touch no file.
  <1>6. ASSUME NEW r \in RequestTypes, files' = files, Turns(h, r),
               \A k \in Kinds : Holds(r, k) => r.id = own.id /\ Holds(own, k)
        PROVE  \A g \in Handlers, k \in Kinds : Held(g, k)'
    BY <1>1, <1>3, <1>4, <1>5, <1>6, HeldStep
  <1>7. \A r : ~Holds(IdleHandler, r)
    BY DEF Holds, IdleHandler
  <1>8. CASE Check(h)
    <2>1. PICK r \in RequestTypes : Turns(h, r) /\ (Fails(own, r) \/ Goes(own, r, "move"))
      BY <1>8, CheckIs
    <2>2. files' = files /\ own.pc = "check"
      BY <1>8, CheckIs DEF Quiet
    <2>3. \A k \in Kinds : Holds(r, k) => r.id = own.id /\ Holds(own, k)
      BY <1>2, <2>1, <2>2, FailsHolds, GoesHolds
    <2> QED BY <2>1, <2>2, <2>3, <1>6
  <1>9. CASE Failure(h)
    <2>1. PICK r \in RequestTypes : Turns(h, r) /\ (Fails(own, r) \/ r = IdleHandler)
      BY <1>9, FailureIs
    <2>2. files' = files
      BY <1>9, FailureIs DEF Quiet
    <2>3. \A k \in Kinds : Holds(r, k) => r.id = own.id /\ Holds(own, k)
      BY <1>2, <1>7, <2>1, FailsHolds
    <2> QED BY <2>1, <2>2, <2>3, <1>6
  <1>10. CASE Move(h)
    <2>1. PICK r \in RequestTypes : Turns(h, r) /\ (MoveFails(h, r) \/ MoveAtOnce(h, r) \/ MoveCopies(h, r))
      BY <1>10, MoveIs
    <2>2. own.pc = "move" /\ Moving(own)
      BY <1>10, MoveIs, MovingPcs
    <2>3. CASE MoveFails(h, r)
      <3>1. \A k \in Kinds : Holds(r, k) => r.id = own.id /\ Holds(own, k)
        BY <1>2, <2>3, FailsHolds DEF MoveFails
      <3> QED BY <2>1, <2>3, <3>1, <1>6 DEF MoveFails, Quiet
    <2>4. CASE MoveAtOnce(h, r)
      <3>1. \A g \in Handlers \ {h}, k \in Kinds : Holds(handler[g], k) =>
              files'[Stash(handler[g].id, k)] = "none"
        BY <1>1, <1>10, HeldByOthers DEF Step
      <3>2. \A k \in Kinds : own.op = "restore" /\ k # Head(own.todo) =>
              files'[Stash(own.id, k)] = files[Stash(own.id, k)]
        BY <1>2, <2>2, <2>4, OwnStash DEF MoveAtOnce
      <3>3. own.op = "restore" /\ ~own.undo => files'[src] = "none"
        <4> SUFFICES ASSUME own.op = "restore", ~own.undo PROVE files'[src] = "none"
          OBVIOUS
        <4>1. src \in Places /\ dst \in Places /\ src \in Stashes /\ dst \notin Stashes
          <5> DEFINE path == IF own.op = "restore" THEN rec[own.id].path ELSE own.row.path
          <5>1. /\ src \in Places /\ dst \in Places /\ Head(own.todo) \in Kinds /\ path \in Paths
                /\ src = Stash(own.id, Head(own.todo)) /\ dst = Home(Head(own.todo), path) /\ own.id \in Ids
            BY <2>2, EndsOfRequest DEF Stashing
          <5> HIDE DEF path, src, dst
          <5> QED BY <5>1, HomesAre, StashesAre
        <4> QED BY <1>2, <2>4, <4>1 DEF MoveAtOnce
      <3>4. Advances(own, r) /\ Regular(src)
        BY <2>4 DEF MoveAtOnce
      <3>5. \A k \in Kinds : Holds(r, k) =>
              files'[Stash(r.id, k)] = "none" /\ rec[r.id].status = "active" /\ Alone(r, k)
        BY <2>2, <3>2, <3>3, <3>4, HeldByAdvance
      <3> QED BY <2>1, <1>1, <1>3, <1>4, <3>1, <3>5, HeldStep
    <2>5. CASE MoveCopies(h, r)
      <3>1. \A g \in Handlers \ {h}, k \in Kinds : Holds(handler[g], k) =>
              files'[Stash(handler[g].id, k)] = "none"
        BY <1>1, <1>10, HeldByOthers DEF Step
      <3>2. \A k \in Kinds : Holds(r, k) => /\ r.id = own.id /\ Holds(own, k)
                                           /\ (own.undo => k # Head(own.todo))
        BY <2>2, <2>5, GoesHolds DEF MoveCopies
      <3>3. ASSUME NEW k \in Kinds, Holds(r, k) PROVE files'[Stash(own.id, k)] = "none"
        <4> DEFINE place == Stash(own.id, k)
        <4>1. Holds(own, k) /\ (own.undo => k # Head(own.todo))
          BY <3>2, <3>3, Zenon
        <4>2. files[place] = "none"
          BY <1>5, <4>1
        <4>3. k # Head(own.todo) /\ own.op = "restore"
          BY <1>2, <2>2, <4>1, HeldNotNext
        <4>4. place \in Places /\ dst # place
          BY <2>2, <4>3, OwnStash
        <4>5. files' = [files EXCEPT ![dst] = "part"]
          BY <2>5 DEF MoveCopies
        <4>6. files \in [Places -> Contents]
          BY <1>2
        <4>7. files'[place] = "none"
          <5> HIDE DEF dst, place
          <5> QED BY <4>2, <4>4, <4>5, <4>6
        <4> QED BY <4>7
      <3>4. ASSUME NEW k \in Kinds, Holds(r, k)
            PROVE  files'[Stash(r.id, k)] = "none" /\ rec[r.id].status = "active" /\ Alone(r, k)
        <4>1. r.id = own.id /\ Holds(own, k)
          BY <3>2, <3>4, Zenon
        <4> QED BY <1>5, <3>3, <3>4, <4>1
      <3> QED BY <2>1, <1>1, <1>3, <1>4, <3>1, <3>4, HeldStep
    <2> QED BY <2>1, <2>3, <2>4, <2>5
  <1>11. CASE Copied(h)
    <2>1. PICK r \in RequestTypes : Turns(h, r) /\ (Fails(own, r) \/ Goes(own, r, "unlink"))
      BY <1>11, CopiedIs
    <2>2. own.pc = "copying" /\ files' = IF own.dst = Nowhere THEN files
                                         ELSE [files EXCEPT ![own.dst] = own.got]
      BY <1>11, CopiedIs
    <2>3. \A k \in Kinds : Holds(r, k) => r.id = own.id /\ Holds(own, k)
      BY <1>2, <2>1, FailsHolds, GoesHolds
    <2>4. \A g \in Handlers \ {h}, k \in Kinds : Holds(handler[g], k) =>
              files'[Stash(handler[g].id, k)] = "none"
      BY <1>1, <1>11, HeldByOthers DEF Step
    <2>5. \A k \in Kinds : Holds(r, k) => files'[Stash(own.id, k)] = "none"
      <3> SUFFICES ASSUME NEW k \in Kinds, Holds(r, k) PROVE files'[Stash(own.id, k)] = "none"
        OBVIOUS
      <3>1. files[Stash(own.id, k)] = "none"
        BY <1>5, <2>3
      <3>2. own.dst # Nowhere => own.dst # Stash(own.id, k)
        BY <1>1, <2>2, <3>1 DEF Written
      <3>3. own.id \in Ids
        BY <1>2, <2>3 DEF Holds, InShape
      <3> QED BY <1>2, <2>2, <3>1, <3>2, <3>3, StashesAre
    <2> QED BY <2>1, <1>1, <1>3, <1>4, <1>5, <2>3, <2>4, <2>5, HeldStep
  <1>12. CASE Unlink(h)
    <2>1. PICK r \in RequestTypes : Turns(h, r) /\ (UnlinkFails(h, r) \/ UnlinkAtOnce(h, r))
      BY <1>12, UnlinkIs
    <2>2. own.pc = "unlink" /\ Moving(own)
      BY <1>12, UnlinkIs, MovingPcs
    <2>3. CASE UnlinkFails(h, r)
      <3>1. \A k \in Kinds : Holds(r, k) => r.id = own.id /\ Holds(own, k)
        BY <1>2, <2>3, FailsHolds DEF UnlinkFails
      <3> QED BY <2>1, <2>3, <3>1, <1>6 DEF UnlinkFails, Quiet
    <2>4. CASE UnlinkAtOnce(h, r)
      <3>1. \A g \in Handlers \ {h}, k \in Kinds : Holds(handler[g], k) =>
              files'[Stash(handler[g].id, k)] = "none"
        BY <1>1, <1>12, HeldByOthers DEF Step
      <3>2. \A k \in Kinds : own.op = "restore" /\ k # Head(own.todo) =>
              files'[Stash(own.id, k)] = files[Stash(own.id, k)]
        BY <1>2, <2>2, <2>4, OwnStash DEF UnlinkAtOnce
      <3>3. files'[src] = "none"
        <4>1. src \in Places
          BY <2>2, EndsOfRequest
        <4> QED BY <1>2, <2>4, <4>1 DEF UnlinkAtOnce
      <3>4. Advances(own, r) /\ Regular(src)
        BY <2>4 DEF UnlinkAtOnce
      <3>5. \A k \in Kinds : Holds(r, k) =>
              files'[Stash(r.id, k)] = "none" /\ rec[r.id].status = "active" /\ Alone(r, k)
        BY <2>2, <3>2, <3>3, <3>4, HeldByAdvance
      <3> QED BY <2>1, <1>1, <1>3, <1>4, <3>1, <3>5, HeldStep
    <2> QED BY <2>1, <2>3, <2>4
  <1> QED BY <1>8, <1>9, <1>10, <1>11, <1>12

\* What a restore holds is one of the kinds of its record.
LEMMA HoldsItsKinds ==
  ASSUME NEW own, InShape(own), NEW k, Holds(own, k)
  PROVE  own.op = "restore" /\ own.id \in Ids /\ k \in own.kinds
  BY DEF InShape, Holds

\* A step that touches no file of the trash ends no record of which another
\* restore holds a file.
LEMMA HeldOfEnds ==
  ASSUME ControlInv, StashInv, NEW h \in Handlers,
         Commit(h) \/ Mark(h) \/ Purge(h) \/ Complete(h)
  PROVE  \A g \in Handlers, k \in Kinds : Held(g, k)'
  <1> DEFINE own == handler[h]
  <1>1. /\ \A g \in Handlers, k \in Kinds : Held(g, k)
        /\ Written(h)
    BY DEF StashInv
  <1>2. own \in RequestTypes /\ InShape(own)
    BY DEF ControlInv, LibraryTypes
  <1>3. \A g \in Handlers \ {h}, k \in Kinds : Holds(handler[g], k) =>
          files'[Stash(handler[g].id, k)] = "none"
    BY <1>1, HeldByOthers DEF Step
  <1>4. \A g \in Handlers, k \in Kinds : Holds(handler[g], k) =>
          rec[handler[g].id].status = "active" /\ handler[g].id \in Ids /\ k \in handler[g].kinds
    BY <1>1, HoldsItsKinds DEF Held, ControlInv
  \* The others' records.
  <1>5. ASSUME NEW g \in Handlers \ {h}, NEW k \in Kinds, Holds(handler[g], k)
        PROVE  rec'[handler[g].id].status = "active"
    <2>1. rec[handler[g].id].status = "active" /\ handler[g].id \in Ids /\ k \in handler[g].kinds
      BY <1>4, <1>5
    <2>2. handler[g].op = "restore"
      BY <1>5 DEF Holds
    <2>3. CASE rec' = rec
      BY <2>1, <2>3
    <2>4. ASSUME NEW status, StatusBecomes(own.id, status), Removes(own) \/ status = "active"
          PROVE  rec'[handler[g].id].status = "active"
      <3>1. CASE handler[g].id = own.id
        BY <2>4, <3>1 DEF StatusBecomes, ControlInv, MadeAlone
      <3>2. CASE handler[g].id # own.id
        BY <2>1, <2>4, <3>2 DEF StatusBecomes
      <3> QED BY <3>1, <3>2
    <2>5. CASE Commit(h)
      <3>1. /\ own.todo = <<>> /\ ~own.undo /\ own.op \in Ops
            /\ \/ own.op = "trash" /\ StatusBecomes(own.id, "active")
               \/ own.op = "delete" /\ StatusBecomes(own.id, "staged")
               \/ own.op = "restore" /\ StatusBecomes(own.id, "restored")
               \/ own.op = "rename" /\ rec' = rec
        BY <2>5, CommitIs
      <3>2. CASE own.op # "restore"
        BY <2>3, <2>4, <3>1, <3>2 DEF Removes
      <3>3. CASE own.op = "restore"
        <4>1. handler[g].id # own.id
          <5> SUFFICES ASSUME handler[g].id = own.id PROVE FALSE
            OBVIOUS
          <5>1. rec[own.id].kinds = own.kinds /\ rec[own.id].kinds = handler[g].kinds
            BY <2>2, <3>3 DEF ControlInv, Recorded, RecordedAs
          <5>2. k \in ToSet(own.moved)
            BY <1>2, <2>1, <3>1, <5>1, OrdersEmpty DEF InShape
          <5>3. Holds(own, k)
            BY <3>1, <3>3, <5>2 DEF Holds
          <5> QED BY <1>1, <1>5, <5>3 DEF Held
        <4> QED BY <2>1, <3>1, <3>3, <4>1 DEF StatusBecomes
      <3> QED BY <3>2, <3>3
    <2>6. CASE Mark(h)
      <3>1. \/ Removes(own) /\ StatusBecomes(own.id, "failed")
            \/ own.op = "restore" /\ StatusBecomes(own.id, rec[own.id].status)
        BY <2>6, MarkIs
      <3>2. CASE Removes(own) /\ StatusBecomes(own.id, "failed")
        BY <2>4, <3>2
      <3>3. CASE StatusBecomes(own.id, rec[own.id].status)
        BY <2>1, <3>3 DEF StatusBecomes
      <3> QED BY <3>1, <3>2, <3>3
    <2>7. CASE Purge(h)
      BY <2>3, <2>7, PurgeIs
    <2>8. CASE Complete(h)
      BY <2>4, <2>8, CompleteIs DEF Removes
    <2> QED BY <2>5, <2>6, <2>7, <2>8
  <1>6. PICK r \in RequestTypes : Turns(h, r) /\ \A k \in Kinds : ~Holds(r, k)
    <2>1. \A k \in Kinds : ~Holds(IdleHandler, k)
      BY DEF Holds, IdleHandler
    <2>2. IdleHandler \in RequestTypes
      BY IdleShape
    <2>3. CASE Mark(h) \/ Complete(h)
      BY <2>1, <2>2, <2>3, MarkIs, CompleteIs
    <2>4. CASE Purge(h)
      <3>1. own.op = "delete" /\ \E r \in RequestTypes : Turns(h, r) /\ Goes(own, r, "complete")
        BY <2>4, PurgeIs
      <3> QED BY <3>1 DEF Goes, Holds
    <2>5. CASE Commit(h)
      <3>1. PICK r \in RequestTypes :
              /\ Turns(h, r)
              /\ \/ r = IdleHandler
                 \/ own.op = "delete" /\ Goes(own, r, "purge")
        BY <2>5, CommitIs
      <3>2. CASE r = IdleHandler
        BY <2>1, <3>1, <3>2
      <3>3. CASE own.op = "delete" /\ Goes(own, r, "purge")
        BY <3>1, <3>3 DEF Goes, Holds
      <3> QED BY <3>1, <3>2, <3>3
    <2> QED BY <2>3, <2>4, <2>5
  <1> QED BY <1>1, <1>3, <1>5, <1>6, HeldStep

\* A request that begins holds nothing yet.
LEMMA HeldOfRequests ==
  ASSUME ControlInv, StashInv, NEW h \in Handlers, Request(h)
  PROVE  \A g \in Handlers, k \in Kinds : Held(g, k)'
  <1>1. /\ \A g \in Handlers, k \in Kinds : Held(g, k)
        /\ Written(h)
    BY DEF StashInv
  <1>2. \A g \in Handlers \ {h}, k \in Kinds : Holds(handler[g], k) =>
          files'[Stash(handler[g].id, k)] = "none"
    BY <1>1, HeldByOthers
  <1>3. \A g \in Handlers, k \in Kinds : Holds(handler[g], k) =>
          rec[handler[g].id].status = "active" /\ handler[g].id \in Ids
    BY <1>1, HoldsItsKinds DEF Held, ControlInv
  <1>4. rec \in [Ids -> RecordTypes \cup {NoRecord}]
    BY DEF ControlInv, LibraryTypes
  <1>5. ASSUME NEW op, NEW id, NEW kinds, NEW to, NEW r, Starts(h, r, op, id, kinds, to), NEW k
        PROVE  ~Holds(r, k)
    BY <1>5, OrdersEmpty DEF Starts, Holds
  <1>6. CASE TrashOrDelete(h)
    <2>1. PICK op \in {"trash", "delete"}, kinds \in SUBSET Kinds, id \in Ids, r \in RequestTypes :
              /\ Turns(h, r) /\ Starts(h, r, op, id, kinds, "none")
              /\ rec[id] = NoRecord /\ rec' = [rec EXCEPT ![id] = Pending(op, kinds)]
      BY <1>6, TrashOrDeleteIs
    <2>2. rec[id].status # "active"
      BY <2>1 DEF NoRecord
    <2>3. \A g \in Handlers, k \in Kinds : Holds(handler[g], k) => rec'[handler[g].id].status = "active"
      BY <1>3, <1>4, <2>1, <2>2
    <2> QED BY <1>1, <1>2, <1>5, <2>1, <2>3, HeldStep
  <1>7. CASE Restore(h)
    <2>1. PICK id \in Ids, r \in RequestTypes :
              /\ Turns(h, r) /\ Starts(h, r, "restore", id, rec[id].kinds, "none")
              /\ \A i \in Ids \ {id} : rec'[i] = rec[i]
              /\ rec'[id].status = rec[id].status
      BY <1>7, RestoreIs
    <2>2. \A g \in Handlers, k \in Kinds : Holds(handler[g], k) => rec'[handler[g].id].status = "active"
      BY <1>3, <2>1
    <2> QED BY <1>1, <1>2, <1>5, <2>1, <2>2, HeldStep
  <1>8. CASE Rename(h)
    <2>1. PICK to \in Paths, r \in RequestTypes :
            Turns(h, r) /\ Starts(h, r, "rename", Nowhere, {"source"}, to)
      BY <1>8, RenameIs
    <2>2. rec' = rec
      BY <1>8, RenameIs DEF Quiet
    <2> QED BY <1>1, <1>2, <1>3, <1>5, <2>1, <2>2, HeldStep
  <1> QED BY <1>6, <1>7, <1>8 DEF Request

LEMMA HeldOfOthers ==
  ASSUME ControlInv, StashInv, Publish \/ Crash
  PROVE  \A g \in Handlers, k \in Kinds : Held(g, k)'
  <1>1. CASE Crash
    BY <1>1, CrashIs DEF Held, Holds
  <1>2. CASE Publish
    <2>1. rec' = rec /\ \A g \in Handlers : Alike(handler[g], handler'[g])
      BY <1>2, PublishIs
    <2>2. PICK home \in Places : home \notin Stashes /\ files' = [files EXCEPT ![home] = "whole"]
      BY <1>2, PublishIs
    <2>3. \A g \in Handlers, k \in Kinds : Holds(handler'[g], k) <=> Holds(handler[g], k)
      BY <2>1, AlikeHolds
    <2>4. \A g \in Handlers : handler'[g].id = handler[g].id
      BY <2>1 DEF Alike
    <2>5. ASSUME NEW g \in Handlers, NEW k \in Kinds, Holds(handler[g], k)
          PROVE  files'[Stash(handler[g].id, k)] = files[Stash(handler[g].id, k)]
      <3>1. handler[g].id \in Ids
        BY <2>5, HoldsItsKinds DEF ControlInv
      <3>2. Stash(handler[g].id, k) \in Places /\ Stash(handler[g].id, k) \in Stashes
        BY <3>1, StashesAre
      <3> QED BY <2>2, <3>2 DEF ControlInv, LibraryTypes
    <2> QED BY <2>1, <2>3, <2>4, <2>5 DEF Held, StashInv
  <1> QED BY <1>1, <1>2

-----------------------------------------------------------------------------
(* Where copies are written.                                               *)

LEMMA EndsOfSame ==
  ASSUME NEW a, NEW b, NEW old, NEW new,
         b.op = a.op, b.id = a.id, b.row = a.row, b.to = a.to, b.todo = a.todo, b.undo = a.undo,
         a.op = "restore" => new[a.id].path = old[a.id].path
  PROVE  EndsOf(b, new) = EndsOf(a, old)
  BY Zenon DEF EndsOf

\* The record of a restore keeps its path.
LEMMA PathKept ==
  ASSUME ControlInv, NEW h \in Handlers, Step(h) \/ Request(h) \/ Failure(h),
         NEW g \in Handlers, handler[g].op = "restore"
  PROVE  rec'[handler[g].id].path = rec[handler[g].id].path
  <1> DEFINE own == handler[h]
             i == handler[g].id
  <1>1. rec[i] \in RecordTypes /\ i \in Ids
    BY DEF ControlInv, Recorded, RecordedAs, InShape
  <1>2. CASE rec' = rec
    BY <1>2
  <1>3. ASSUME NEW status, StatusBecomes(own.id, status)
        PROVE  rec'[i].path = rec[i].path
    BY <1>1, <1>3 DEF StatusBecomes
  <1>4. CASE Check(h) \/ Failure(h)
    BY <1>2, <1>4, CheckIs, FailureIs DEF Quiet
  <1>5. CASE Move(h) \/ Copied(h) \/ Unlink(h)
    BY <1>2, <1>5, MoveIs, CopiedIs, UnlinkIs DEF FilesOnly
  <1>6. CASE Purge(h)
    BY <1>2, <1>6, PurgeIs
  <1>7. CASE Commit(h)
    <2>1. (\E status : StatusBecomes(own.id, status)) \/ rec' = rec
      BY <1>7, CommitIs
    <2> QED BY <2>1, <1>2, <1>3
  <1>8. CASE Mark(h) \/ Complete(h)
    <2>1. \E status : StatusBecomes(own.id, status)
      BY <1>8, MarkIs, CompleteIs
    <2> QED BY <2>1, <1>3
  <1>9. CASE TrashOrDelete(h)
    <2>1. PICK op \in {"trash", "delete"}, kinds \in SUBSET Kinds, id \in Ids :
            rec[id] = NoRecord /\ rec' = [rec EXCEPT ![id] = Pending(op, kinds)]
      BY <1>9, TrashOrDeleteIs
    <2>2. rec[i] # NoRecord
      <3>1. NoRecord.op = "none"
        BY DEF NoRecord
      <3> QED BY <1>1, <3>1 DEF RecordTypes
    <2> QED BY <1>1, <2>1, <2>2 DEF ControlInv, LibraryTypes
  <1>10. CASE Restore(h)
    <2>1. PICK id \in Ids : /\ \A j \in Ids \ {id} : rec'[j] = rec[j]
                            /\ rec'[id].path = rec[id].path
      BY <1>10, RestoreIs
    <2> QED BY <1>1, <2>1
  <1>11. CASE Rename(h)
    BY <1>2, <1>11, RenameIs DEF Quiet
  <1> QED BY <1>4, <1>5, <1>6, <1>7, <1>8, <1>9, <1>10, <1>11 DEF Step, Request

\* Where another request moves its file from, and to, stays the same.
LEMMA EndsSame ==
  ASSUME ControlInv, NEW h \in Handlers, Step(h) \/ Request(h) \/ Failure(h),
         NEW g \in Handlers, Alike(handler[g], handler'[g])
  PROVE  Ends(g)' = Ends(g)
  <1>1. handler[g].op = "restore" => rec'[handler[g].id].path = rec[handler[g].id].path
    BY PathKept
  <1>2. /\ handler'[g].op = handler[g].op /\ handler'[g].id = handler[g].id
        /\ handler'[g].row = handler[g].row /\ handler'[g].to = handler[g].to
        /\ handler'[g].todo = handler[g].todo /\ handler'[g].undo = handler[g].undo
    BY DEF Alike
  <1>3. EndsOf(handler'[g], rec') = EndsOf(handler[g], rec)
    BY <1>1, <1>2, EndsOfSame
  <1> QED BY <1>3 DEF Ends

\* Every action's other requests stay as they are, but for the files they write.
LEMMA OthersAlike ==
  ASSUME ControlInv, NEW h \in Handlers, Step(h) \/ Request(h) \/ Failure(h),
         NEW g \in Handlers \ {h}
  PROVE  Alike(handler[g], handler'[g])
  <1>1. CASE Check(h) \/ Move(h) \/ Copied(h) \/ Unlink(h)
    <2>1. \E r \in RequestTypes : Turns(h, r)
      BY <1>1, CheckIs, MoveIs, CopiedIs, UnlinkIs
    <2> QED BY <2>1 DEF Turns
  <1>2. CASE Commit(h) \/ Mark(h) \/ Purge(h) \/ Complete(h)
    <2>1. \E r \in RequestTypes : Turns(h, r)
      BY <1>2, IdleShape, CommitIs, MarkIs, PurgeIs, CompleteIs
    <2> QED BY <2>1 DEF Turns
  <1>3. CASE Failure(h)
    <2>1. \E r \in RequestTypes : Turns(h, r)
      BY <1>3, FailureIs
    <2> QED BY <2>1 DEF Turns
  <1>4. CASE Request(h)
    <2>1. \E r \in RequestTypes : Turns(h, r)
      BY <1>4, TrashOrDeleteIs, RestoreIs, RenameIs DEF Request
    <2> QED BY <2>1 DEF Turns
  <1> QED BY <1>1, <1>2, <1>3, <1>4 DEF Step

\* What another's step may do to the file that a request is writing.
WrittenGoesOn(g) ==
  \/ handler'[g].dst = Nowhere
  \/ handler'[g].dst = handler[g].dst /\ files'[handler[g].dst] # "none"
  \/ /\ handler'[g].dst \notin Stashes /\ handler[g].dst \notin Stashes
     /\ KindOf(handler'[g].dst) = KindOf(handler[g].dst)
     /\ handler[g].dst # Nowhere /\ files'[handler'[g].dst] # "none"

LEMMA WrittenKept ==
  ASSUME NEW g \in Handlers, Alike(handler[g], handler'[g]), Ends(g)' = Ends(g), Written(g),
         handler[g].pc = "copying" => WrittenGoesOn(g)
  PROVE  Written(g)'
  <1> DEFINE own == handler[g]
  <1>1. SUFFICES ASSUME handler'[g].pc = "copying", handler'[g].dst # Nowhere
                 PROVE  /\ files'[handler'[g].dst] # "none"
                        /\ KindOf(handler'[g].dst) = Head(handler[g].todo)
                        /\ IF Ends(g).dst \in Stashes THEN handler'[g].dst = Ends(g).dst
                           ELSE handler'[g].dst \notin Stashes
    <2>1. handler'[g].todo = handler[g].todo
      BY DEF Alike
    <2> QED BY <2>1 DEF Written
  <1>2. own.pc = "copying"
    BY <1>1 DEF Alike
  <1>3. CASE own.dst = Nowhere
    BY <1>1, <1>2, <1>3 DEF WrittenGoesOn
  <1>4. CASE own.dst # Nowhere
    <2>1. WrittenGoesOn(g)
      BY <1>2, <1>4
    <2>2. /\ IF Ends(g).dst \in Stashes THEN own.dst = Ends(g).dst ELSE own.dst \notin Stashes
          /\ KindOf(own.dst) = Head(own.todo)
      BY <1>2, <1>4 DEF Written
    <2>3. CASE handler'[g].dst = own.dst /\ files'[own.dst] # "none"
      BY <2>2, <2>3
    <2>4. CASE /\ handler'[g].dst \notin Stashes /\ own.dst \notin Stashes
               /\ KindOf(handler'[g].dst) = KindOf(own.dst)
               /\ files'[handler'[g].dst] # "none"
      BY <2>2, <2>4
    <2> QED BY <1>1, <2>1, <2>3, <2>4 DEF WrittenGoesOn
  <1> QED BY <1>3, <1>4

\* A file that is moved, or removed, is written on where it has gone, or nowhere.
LEMMA WrittenAfterFollow ==
  ASSUME NEW g \in Handlers, files \in [Places -> Contents], Written(g),
         handler[g].pc = "copying", handler[g].dst \in Places \cup {Nowhere},
         NEW src \in Places, NEW dst \in Places \cup {Nowhere},
         dst # Nowhere => src \notin Stashes /\ dst \notin Stashes /\ KindOf(dst) = KindOf(src),
         handler'[g].dst = FollowDst(handler[g], src, dst),
         \A place \in Places : files'[place] # files[place] => place \in {src, dst},
         dst # Nowhere => files'[dst] # "none"
  PROVE  WrittenGoesOn(g)
  <1> DEFINE old == handler[g].dst
             new == handler'[g].dst
  <1>0. Nowhere \notin Places
    BY LibraryAssumption
  <1>1. CASE old = Nowhere
    BY <1>0, <1>1 DEF FollowDst, WrittenGoesOn
  <1>2. CASE old # Nowhere /\ old \notin {src, dst}
    <2>1. new = old
      BY <1>2 DEF FollowDst
    <2>2. files[old] # "none"
      BY <1>2 DEF Written
    <2>3. files'[old] = files[old]
      BY <1>2
    <2> QED BY <2>1, <2>2, <2>3 DEF WrittenGoesOn
  <1>3. CASE old = src
    <2>1. new = dst
      BY <1>3 DEF FollowDst
    <2> QED BY <2>1, <1>0, <1>3 DEF WrittenGoesOn
  <1>4. CASE old # Nowhere /\ old # src /\ old = dst
    BY <1>4 DEF FollowDst, WrittenGoesOn
  <1> QED BY <1>1, <1>2, <1>3, <1>4

\* A request's own step leaves its copy where it belongs.
LEMMA WrittenByOwn ==
  ASSUME ControlInv, NEW h \in Handlers, Step(h) \/ Request(h) \/ Failure(h)
  PROVE  Written(h)'
  <1> DEFINE own == handler[h]
  <1>1. SUFFICES ASSUME handler'[h].pc = "copying" PROVE Written(h)'
    BY DEF Written
  <1>2. Move(h)
    <2>1. CASE Check(h)
      <3>1. PICK r \in RequestTypes : Turns(h, r) /\ r.pc # "copying"
        BY <2>1, CheckIs
      <3> QED BY <1>1, <3>1 DEF Turns
    <2>2. CASE Copied(h)
      <3>1. PICK r \in RequestTypes : Turns(h, r) /\ (Fails(own, r) \/ Goes(own, r, "unlink"))
        BY <2>2, CopiedIs
      <3>2. r.pc # "copying"
        BY <3>1 DEF Fails, Goes, IdleHandler
      <3> QED BY <1>1, <3>1, <3>2 DEF Turns
    <2>3. CASE Unlink(h)
      <3>1. PICK r \in RequestTypes : Turns(h, r) /\ r.pc # "copying"
        BY <2>3, UnlinkIs
      <3> QED BY <1>1, <3>1 DEF Turns
    <2>4. CASE Failure(h)
      <3>1. PICK r \in RequestTypes : Turns(h, r) /\ r.pc # "copying"
        BY <2>4, FailureIs
      <3> QED BY <1>1, <3>1 DEF Turns
    <2>5. CASE Commit(h)
      <3>1. PICK r \in RequestTypes : Turns(h, r) /\ (r = IdleHandler \/ Goes(own, r, "purge"))
        BY <2>5, CommitIs
      <3> QED BY <1>1, <3>1 DEF Turns, Goes, IdleHandler
    <2>6. CASE Mark(h) \/ Complete(h)
      BY <1>1, <2>6, MarkIs, CompleteIs DEF Turns, IdleHandler
    <2>7. CASE Purge(h)
      <3>1. PICK r \in RequestTypes : Turns(h, r) /\ Goes(own, r, "complete")
        BY <2>7, PurgeIs
      <3> QED BY <1>1, <3>1 DEF Turns, Goes
    <2>8. CASE Request(h)
      <3>1. PICK r \in RequestTypes : /\ Turns(h, r)
                                      /\ r.pc \in {"move", "check"}
        <4>1. CASE TrashOrDelete(h)
          BY <4>1, TrashOrDeleteIs DEF Starts
        <4>2. CASE Restore(h)
          BY <4>2, RestoreIs DEF Starts
        <4>3. CASE Rename(h)
          BY <4>3, RenameIs DEF Starts
        <4> QED BY <2>8, <4>1, <4>2, <4>3 DEF Request
      <3> QED BY <1>1, <3>1 DEF Turns
    <2> QED BY <2>1, <2>2, <2>3, <2>4, <2>5, <2>6, <2>7, <2>8 DEF Step
  <1>3. Moving(own) /\ rec' = rec
    BY <1>2, MoveIs, MovingPcs DEF FilesOnly
  <1>4. PICK r \in RequestTypes : Turns(h, r) /\ (MoveFails(h, r) \/ MoveAtOnce(h, r) \/ MoveCopies(h, r))
    BY <1>2, MoveIs
  <1>5. handler'[h] = r /\ r.pc = "copying"
    BY <1>1, <1>4 DEF Turns
  <1>6. ~MoveFails(h, r)
    BY <1>5 DEF MoveFails, Fails, IdleHandler
  <1>7. ~MoveAtOnce(h, r)
    <2>1. SUFFICES ASSUME Advances(own, r) PROVE FALSE
      BY DEF MoveAtOnce
    <2> QED BY <1>5, <2>1 DEF Advances
  <1>8. /\ files' = [files EXCEPT ![Ends(h).dst] = "part"]
        /\ Goes(own, r, "copying") /\ r.dst = Ends(h).dst
    BY <1>4, <1>6, <1>7 DEF MoveCopies
  <1>9. Ends(h)' = Ends(h)
    <2>1. EndsOf(r, rec) = EndsOf(own, rec)
      BY <1>8, EndsOfSame DEF Goes
    <2> QED BY <2>1, <1>3, <1>5 DEF Ends
  <1>10. Ends(h).dst \in Places /\ files \in [Places -> Contents]
    BY <1>3, EndsOfRequest DEF ControlInv, LibraryTypes
  <1>11. files'[r.dst] # "none"
    BY <1>8, <1>10
  <1>12. KindOf(r.dst) = Head(r.todo)
    BY <1>3, <1>8, EndsOfRequest DEF Goes
  <1> QED BY <1>5, <1>8, <1>9, <1>11, <1>12 DEF Written

LEMMA WrittenByOthers ==
  ASSUME ControlInv, NEW h \in Handlers, Step(h) \/ Request(h) \/ Failure(h),
         NEW g \in Handlers \ {h}, Written(g)
  PROVE  Written(g)'
  <1> DEFINE own == handler[h]
             src == Ends(h).src
             dst == Ends(h).dst
             old == handler[g].dst
  <1>1. Alike(handler[g], handler'[g]) /\ Ends(g)' = Ends(g)
    BY OthersAlike, EndsSame
  <1>2. /\ files \in [Places -> Contents] /\ handler[g] \in RequestTypes /\ InShape(handler[g])
        /\ Nowhere \notin Places
    BY LibraryAssumption DEF ControlInv, LibraryTypes
  <1>3. old \in Places \cup {Nowhere}
    BY <1>2 DEF RequestTypes
  <1>4. SUFFICES ASSUME handler[g].pc = "copying" PROVE WrittenGoesOn(g)
    BY <1>1, WrittenKept
  <1>5. Apart /\ (old # Nowhere => files[old] # "none")
    BY <1>2, <1>4 DEF InShape, Written
  <1>6. CASE handler'[g].dst = old /\ files' = files
    BY <1>5, <1>6 DEF WrittenGoesOn
  <1>7. CASE Check(h) \/ Failure(h)
    BY <1>6, <1>7, CheckIs, FailureIs DEF Quiet, SameDsts
  <1>8. CASE Commit(h) \/ Mark(h) \/ Complete(h)
    BY <1>6, <1>8, CommitIs, MarkIs, CompleteIs DEF SameDsts
  <1>9. CASE Request(h)
    BY <1>6, <1>9, TrashOrDeleteIs, RestoreIs, RenameIs DEF Request, Quiet, SameDsts
  <1>10. CASE Purge(h)
    <2>1. SameDsts(h) /\ Removes(own)
      BY <1>10, PurgeIs DEF Removes
    <2>4. PICK gone \in SUBSET own.kinds :
            files' = [p \in Places |-> IF p \in {own.id} \X gone THEN "none" ELSE files[p]]
      BY <1>10, PurgeIs
    <2>2. CASE old = Nowhere
      BY <2>1, <2>2 DEF WrittenGoesOn, SameDsts
    <2>3. CASE old # Nowhere
      <3>1. Moving(handler[g])
        BY <1>4 DEF Moving
      <3>2. handler[g].id # own.id
        BY <2>1 DEF ControlInv, MadeAlone
      <3>3. IF Ends(g).dst \in Stashes THEN old = Ends(g).dst ELSE old \notin Stashes
        BY <1>4, <2>3 DEF Written
      <3>4. own.id \in Ids /\ own.kinds \subseteq Kinds
        BY <1>10, PurgeIs
      <3>5. Ends(g).dst \in Stashes => Ends(g).dst = Stash(handler[g].id, Head(handler[g].todo))
        <4> DEFINE path == IF handler[g].op = "restore" THEN rec[handler[g].id].path ELSE handler[g].row.path
                   there == Ends(g).dst
                   kind == Head(handler[g].todo)
        <4>1. /\ kind \in Kinds /\ path \in Paths
              /\ handler[g].op = "rename" => there = Home("source", handler[g].to) /\ handler[g].to \in Paths /\ kind = "source"
              /\ handler[g].op # "rename" /\ Stashing(handler[g]) => there = Stash(handler[g].id, kind)
              /\ ~Stashing(handler[g]) => there = Home(kind, path)
          BY <3>1, EndsOfRequest
        <4> HIDE DEF path, there, kind
        <4>2. there \in Stashes => there = Stash(handler[g].id, kind)
          BY <4>1, HomesAre
        <4> QED BY <4>2 DEF there, kind
      <3>6. old \notin {own.id} \X gone
        BY <3>2, <3>3, <3>4, <3>5, <2>4 DEF Stash, Stashes
      <3>7. files'[old] # "none"
        <4> HIDE DEF old, own
        <4> QED BY <1>3, <1>5, <2>4, <2>3, <3>6
      <3>8. handler'[g].dst = old
        BY <2>1 DEF SameDsts
      <3> QED BY <3>7, <3>8 DEF WrittenGoesOn
    <2> QED BY <2>2, <2>3
  <1>11. CASE Move(h)
    <2>1. Moving(own) /\ \E r \in RequestTypes : MoveFails(h, r) \/ MoveAtOnce(h, r) \/ MoveCopies(h, r)
      BY <1>11, MoveIs, MovingPcs
    <2>2. PICK r \in RequestTypes : MoveFails(h, r) \/ MoveAtOnce(h, r) \/ MoveCopies(h, r)
      BY <2>1
    <2>3. src \in Places /\ dst \in Places
      BY <2>1, EndsOfRequest
    <2>4. CASE MoveFails(h, r)
      BY <1>6, <2>4 DEF MoveFails, Quiet, SameDsts
    <2>5. CASE MoveCopies(h, r)
      <3>1. handler'[g].dst = old /\ files' = [files EXCEPT ![dst] = "part"]
        BY <2>5 DEF MoveCopies, SameDsts
      <3> HIDE DEF dst
      <3>2. CASE old = Nowhere
        BY <3>1, <3>2 DEF WrittenGoesOn
      <3>3. CASE old # Nowhere
        <4>1. files'[old] # "none"
          BY <1>2, <1>3, <1>5, <2>3, <3>1, <3>3
        <4> QED BY <3>1, <4>1 DEF WrittenGoesOn
      <3> QED BY <3>2, <3>3
    <2>6. CASE MoveAtOnce(h, r)
      <3>1. own.op = "rename" /\ Regular(src)
        BY <1>5, <2>6 DEF MoveAtOnce
      <3>2. src \notin Stashes /\ dst \notin Stashes /\ KindOf(dst) = KindOf(src)
        <4> DEFINE path == IF own.op = "restore" THEN rec[own.id].path ELSE own.row.path
        <4>1. /\ path \in Paths /\ own.to \in Paths
              /\ src = Home("source", path) /\ dst = Home("source", own.to)
          BY <2>1, <3>1, EndsOfRequest
        <4>2. "source" \in Kinds
          BY DEF Kinds
        <4> HIDE DEF path
        <4> QED BY <4>1, <4>2, HomesAre
      <3>3. /\ files' = [files EXCEPT ![src] = "none", ![dst] = files[src]]
            /\ handler'[g].dst = FollowDst(handler[g], src, dst)
        BY <2>6 DEF MoveAtOnce
      <3>4. files[src] # "none"
        BY <3>1 DEF Regular
      <3> HIDE DEF src, dst
      <3>5. files'[dst] # "none"
        BY <1>2, <2>3, <3>3, <3>4
      <3>6. \A place \in Places : files'[place] # files[place] => place \in {src, dst}
        BY <1>2, <2>3, <3>3
      <3> QED BY <1>2, <1>3, <1>4, <2>3, <3>2, <3>3, <3>5, <3>6, WrittenAfterFollow
    <2> QED BY <2>2, <2>4, <2>5, <2>6
  <1>12. CASE Copied(h)
    <2>1. /\ SameDsts(h) /\ own.pc = "copying"
          /\ files' = IF own.dst = Nowhere THEN files ELSE [files EXCEPT ![own.dst] = own.got]
      BY <1>12, CopiedIs
    <2>2. own.got \in {"cut", "whole"} /\ own.dst \in Places \cup {Nowhere}
      BY <2>1 DEF ControlInv, InShape, LibraryTypes, RequestTypes
    <2>3. handler'[g].dst = old
      BY <2>1 DEF SameDsts
    <2>4. old # Nowhere => files'[old] # "none"
      <3> DEFINE place == own.dst
                 got == own.got
      <3>1. \/ files' = files
            \/ place \in Places /\ files' = [files EXCEPT ![place] = got]
        BY <2>1, <2>2
      <3>2. got # "none"
        BY <2>2
      <3> HIDE DEF place, got, old
      <3> QED BY <1>2, <1>3, <1>5, <3>1, <3>2
    <2> QED BY <2>3, <2>4 DEF WrittenGoesOn
  <1>13. CASE Unlink(h)
    <2>1. Moving(own)
      BY <1>13, UnlinkIs, MovingPcs
    <2>2. PICK r \in RequestTypes : UnlinkFails(h, r) \/ UnlinkAtOnce(h, r)
      BY <1>13, UnlinkIs
    <2>3. src \in Places
      BY <2>1, EndsOfRequest
    <2>4. CASE UnlinkFails(h, r)
      BY <1>6, <2>4 DEF UnlinkFails, Quiet, SameDsts
    <2>5. CASE UnlinkAtOnce(h, r)
      <3>1. /\ files' = [files EXCEPT ![src] = "none"]
            /\ handler'[g].dst = FollowDst(handler[g], src, Nowhere)
        BY <2>5 DEF UnlinkAtOnce
      <3> HIDE DEF src
      <3>2. \A place \in Places : files'[place] # files[place] => place \in {src, Nowhere}
        BY <1>2, <2>3, <3>1
      <3> QED BY <1>2, <1>3, <1>4, <2>3, <3>1, <3>2, WrittenAfterFollow
    <2> QED BY <2>2, <2>4, <2>5
  <1> QED BY <1>7, <1>8, <1>9, <1>10, <1>11, <1>12, <1>13 DEF Step

LEMMA WrittenByTheRest ==
  ASSUME ControlInv, Publish \/ Crash, NEW g \in Handlers, Written(g)
  PROVE  Written(g)'
  <1>1. CASE Crash
    BY <1>1, CrashIs DEF Written
  <1>2. CASE Publish
    <2>1. rec' = rec /\ Alike(handler[g], handler'[g])
      BY <1>2, PublishIs
    <2>2. PICK home \in Places : /\ home \notin Stashes /\ files' = [files EXCEPT ![home] = "whole"]
                                 /\ handler'[g].dst = FollowDst(handler[g], home, Nowhere)
      BY <1>2, PublishIs
    <2>3. EndsOf(handler'[g], rec) = EndsOf(handler[g], rec)
      BY <2>1, EndsOfSame DEF Alike
    <2>4. Ends(g)' = Ends(g)
      BY <2>1, <2>3 DEF Ends
    <2>5. files \in [Places -> Contents] /\ handler[g].dst \in Places \cup {Nowhere}
      BY DEF ControlInv, LibraryTypes, RequestTypes
    <2>6. \A place \in Places : files'[place] # files[place] => place \in {home, Nowhere}
      BY <2>2, <2>5
    <2>7. handler[g].pc = "copying" => WrittenGoesOn(g)
      BY <2>2, <2>5, <2>6, WrittenAfterFollow
    <2> QED BY <2>1, <2>4, <2>7, WrittenKept
  <1> QED BY <1>1, <1>2

-----------------------------------------------------------------------------
(* Whatever lies in the trash has its record.                              *)

LEMMA FilesOfRequests ==
  ASSUME ControlInv, StashInv, NEW h \in Handlers, Step(h) \/ Request(h) \/ Failure(h)
  PROVE  EveryFileHasRecord'
  <1> DEFINE own == handler[h]
  <1>1. /\ \A g \in Handlers, k \in Kinds : Held(g, k)
        /\ Written(h) /\ Removed(h) /\ EveryFileHasRecord
    BY DEF StashInv
  <1>2. SUFFICES ASSUME NEW i \in Ids, NEW k \in Kinds, files'[Stash(i, k)] # "none"
                 PROVE  k \in rec'[i].kinds /\ rec'[i].status \in Open
    BY DEF EveryFileHasRecord, Open
  <1>3. CASE files[Stash(i, k)] = "none"
    <2>1. /\ Move(h) /\ own.pc = "move" /\ Moving(own) /\ own.op # "rename" /\ Stashing(own)
          /\ i = own.id /\ k = Head(own.todo) /\ k \in own.kinds
      BY <1>1, <1>2, <1>3, Enters
    <2>2. rec' = rec
      BY <2>1, MoveIs DEF FilesOnly
    <2>3. own.op \in {"trash", "delete", "restore"} /\ own.undo \in BOOLEAN
      BY <2>1 DEF ControlInv, LibraryTypes, RequestTypes, InShape, Moving, Ops
    <2>4. RecordedAs(own, rec[i])
      BY <2>1, <2>3 DEF ControlInv, Recorded
    <2>5. CASE own.op # "restore"
      BY <2>1, <2>2, <2>3, <2>4, <2>5 DEF RecordedAs, Removes, Open
    <2>6. CASE own.op = "restore"
      <3>1. own.undo
        BY <2>1, <2>3, <2>6 DEF Stashing
      <3>2. k \in ToSet(own.todo)
        BY <2>1, EndsOfRequest
      <3>3. Holds(own, k)
        BY <2>1, <2>6, <3>1, <3>2 DEF Holds
      <3>4. rec[own.id].status = "active"
        BY <1>1, <3>3 DEF Held
      <3> QED BY <2>1, <2>2, <2>4, <3>4 DEF RecordedAs, Open
    <2> QED BY <2>5, <2>6
  <1>4. CASE files[Stash(i, k)] # "none"
    <2>1. k \in rec[i].kinds /\ rec[i].status \in Open
      BY <1>1, <1>4, FilesInRecord DEF Open
    <2>2. CASE rec' = rec
      BY <2>1, <2>2
    <2>3. ASSUME NEW status, StatusBecomes(own.id, status), i = own.id => status \in Open
          PROVE  k \in rec'[i].kinds /\ rec'[i].status \in Open
      BY <2>1, <2>3 DEF StatusBecomes
    <2>4. CASE Check(h) \/ Failure(h)
      BY <2>2, <2>4, CheckIs, FailureIs DEF Quiet
    <2>5. CASE Move(h) \/ Copied(h) \/ Unlink(h)
      BY <2>2, <2>5, MoveIs, CopiedIs, UnlinkIs DEF FilesOnly
    <2>6. CASE Purge(h)
      BY <2>2, <2>6, PurgeIs
    <2>7. CASE Mark(h)
      <3>1. \/ StatusBecomes(own.id, "failed")
            \/ StatusBecomes(own.id, rec[own.id].status)
        BY <2>7, MarkIs
      <3> QED BY <2>1, <2>3, <3>1 DEF Open
    <2>8. CASE Commit(h)
      <3>1. /\ own.todo = <<>> /\ ~own.undo
            /\ \/ StatusBecomes(own.id, "active")
               \/ StatusBecomes(own.id, "staged")
               \/ own.op = "restore" /\ StatusBecomes(own.id, "restored")
               \/ rec' = rec
        BY <2>8, CommitIs
      <3>2. CASE own.op = "restore" /\ StatusBecomes(own.id, "restored")
        <4>1. i # own.id
          <5> SUFFICES ASSUME i = own.id PROVE FALSE
            OBVIOUS
          <5>1. k \in own.kinds
            BY <2>1, <3>2 DEF ControlInv, Recorded, RecordedAs
          <5>2. k \in ToSet(own.moved)
            BY <3>1, <5>1, OrdersEmpty DEF ControlInv, InShape
          <5>3. Holds(own, k)
            BY <3>1, <3>2, <5>2 DEF Holds
          <5> QED BY <1>1, <1>4, <5>3 DEF Held
        <4> QED BY <2>3, <3>2, <4>1
      <3> QED BY <2>2, <2>3, <3>1, <3>2 DEF Open
    <2>9. CASE Complete(h)
      <3>1. PICK status \in Closings :
              /\ StatusBecomes(own.id, status)
              /\ status = "completed" => \A l \in own.kinds : files[Stash(own.id, l)] = "none"
        BY <2>9, CompleteIs
      <3>2. own.op = "delete"
        BY <2>9, CompleteIs
      <3>3. ASSUME i = own.id PROVE status = "completed_with_residue"
        <4>1. k \in own.kinds
          BY <2>1, <3>2, <3>3 DEF ControlInv, Recorded, RecordedAs
        <4> QED BY <1>4, <3>1, <3>3, <4>1 DEF Closings
      <3> QED BY <2>3, <3>1, <3>3 DEF Open
    <2>10. CASE TrashOrDelete(h)
      <3>1. PICK op \in {"trash", "delete"}, kinds \in SUBSET Kinds, id \in Ids :
              rec[id] = NoRecord /\ rec' = [rec EXCEPT ![id] = Pending(op, kinds)]
        BY <2>10, TrashOrDeleteIs
      <3>2. NoRecord.kinds = {}
        BY DEF NoRecord
      <3>3. i # id
        BY <2>1, <3>1, <3>2
      <3> QED BY <2>1, <3>1, <3>3 DEF ControlInv, LibraryTypes
    <2>11. CASE Restore(h)
      <3>1. PICK id \in Ids : /\ \A j \in Ids \ {id} : rec'[j] = rec[j]
                              /\ rec'[id].kinds = rec[id].kinds
                              /\ rec'[id].status = rec[id].status
        BY <2>11, RestoreIs
      <3> QED BY <2>1, <3>1
    <2>12. CASE Rename(h)
      BY <2>2, <2>12, RenameIs DEF Quiet
    <2> QED BY <2>4, <2>5, <2>6, <2>7, <2>8, <2>9, <2>10, <2>11, <2>12 DEF Step, Request
  <1> QED BY <1>3, <1>4

\* A compile job and the end of the process leave the trash alone.
LEMMA StashLeft ==
  ASSUME ControlInv, Publish \/ Crash, NEW i \in Ids, NEW k \in Kinds
  PROVE  files'[Stash(i, k)] = files[Stash(i, k)] /\ rec' = rec
  <1>1. CASE Crash
    BY <1>1, CrashIs DEF Quiet
  <1>2. CASE Publish
    <2>1. PICK home \in Places : home \notin Stashes /\ files' = [files EXCEPT ![home] = "whole"]
      BY <1>2, PublishIs
    <2>2. Stash(i, k) \in Places /\ Stash(i, k) \in Stashes
      BY StashesAre
    <2>3. rec' = rec
      BY <1>2, PublishIs
    <2> QED BY <2>1, <2>2, <2>3 DEF ControlInv, LibraryTypes
  <1> QED BY <1>1, <1>2

LEMMA FilesOfTheRest ==
  ASSUME ControlInv, EveryFileHasRecord, Publish \/ Crash
  PROVE  EveryFileHasRecord'
  BY StashLeft DEF EveryFileHasRecord

-----------------------------------------------------------------------------
(* How much of its files a removal has in the trash.                       *)

NotYet(own, f) ==
  \A k \in ToSet(own.todo) : own.pc = "move" \/ k # Head(own.todo) => f[Stash(own.id, k)] = "none"
InPart(own, dst, f) ==
  own.pc = "copying" => own.dst = dst /\ f[Stash(own.id, Head(own.todo))] = "part"
InFull(own, f) ==
  own.pc = "unlink" => f[Stash(own.id, Head(own.todo))] \in {"cut", "whole"}
HasMoved(own, f) ==
  own.pc # "complete" => \A k \in ToSet(own.moved) : f[Stash(own.id, k)] \in {"cut", "whole"}
RemovedSoFar(own, dst, f) ==
  NotYet(own, f) /\ InPart(own, dst, f) /\ InFull(own, f) /\ HasMoved(own, f)

LEMMA RemovedIs ==
  ASSUME NEW h \in Handlers
  PROVE  Removed(h) <=> (Forward(handler[h]) => RemovedSoFar(handler[h], Ends(h).dst, files))
  BY DEF Removed, RemovedSoFar, NotYet, InPart, InFull, HasMoved

\* A request touches no other record's place in the trash.
LEMMA EndsElsewhere ==
  ASSUME ControlInv, NEW h \in Handlers, Moving(handler[h]),
         NEW i \in Ids, NEW k \in Kinds, i # handler[h].id
  PROVE  Ends(h).src # Stash(i, k) /\ Ends(h).dst # Stash(i, k)
  <1> DEFINE own == handler[h]
             src == Ends(h).src
             dst == Ends(h).dst
             place == Stash(i, k)
             path == IF own.op = "restore" THEN rec[own.id].path ELSE own.row.path
  <1>1. place \in Stashes
    BY StashesAre
  <1>2. Stash(own.id, Head(own.todo)) # place
    BY StashesDiffer
  <1>3. /\ Head(own.todo) \in Kinds /\ path \in Paths
        /\ own.op = "rename" => /\ Head(own.todo) = "source" /\ src = Home("source", path)
                                /\ dst = Home("source", own.to) /\ own.to \in Paths
        /\ own.op # "rename" /\ Stashing(own) =>
             src = Home(Head(own.todo), path) /\ dst = Stash(own.id, Head(own.todo)) /\ own.id \in Ids
        /\ ~Stashing(own) =>
             /\ src = Stash(own.id, Head(own.todo)) /\ dst = Home(Head(own.todo), path)
             /\ own.id \in Ids /\ own.op # "rename"
    BY EndsOfRequest
  <1>4. Home(Head(own.todo), path) # place
    BY <1>1, <1>3, HomesAre
  <1>5. own.op = "rename" => dst # place
    BY <1>1, <1>3, HomesAre
  <1> HIDE DEF path, src, dst, place
  <1>6. src # place /\ dst # place
    BY <1>2, <1>3, <1>4, <1>5
  <1> QED BY <1>6 DEF src, dst, place

LEMMA DstSame ==
  ASSUME ControlInv, NEW h \in Handlers, Step(h) \/ Request(h) \/ Failure(h),
         NEW g \in Handlers \ {h}, NEW k \in Kinds, handler[g].id \in Ids,
         handler[g].id # handler[h].id, handler[g].dst = Stash(handler[g].id, k)
  PROVE  handler'[g].dst = handler[g].dst
  <1>1. CASE SameDsts(h)
    BY <1>1 DEF SameDsts
  <1>2. ASSUME Moving(handler[h]), NEW dst, dst = Ends(h).dst \/ dst = Nowhere,
               handler'[g].dst = FollowDst(handler[g], Ends(h).src, dst)
        PROVE  handler'[g].dst = handler[g].dst
    <2>1. handler[g].dst # Ends(h).src /\ handler[g].dst # Ends(h).dst
      BY <1>2, EndsElsewhere
    <2>2. handler[g].dst # Nowhere
      BY StashesAre, LibraryAssumption
    <2> QED BY <1>2, <2>1, <2>2 DEF FollowDst
  <1>3. CASE Move(h)
    <2>1. Moving(handler[h])
      BY <1>3, MoveIs, MovingPcs
    <2>2. PICK r \in RequestTypes : MoveFails(h, r) \/ MoveAtOnce(h, r) \/ MoveCopies(h, r)
      BY <1>3, MoveIs
    <2> QED BY <1>1, <1>2, <2>1, <2>2 DEF MoveFails, MoveAtOnce, MoveCopies
  <1>4. CASE Unlink(h)
    <2>1. Moving(handler[h])
      BY <1>4, UnlinkIs, MovingPcs
    <2>2. PICK r \in RequestTypes : UnlinkFails(h, r) \/ UnlinkAtOnce(h, r)
      BY <1>4, UnlinkIs
    <2> QED BY <1>1, <1>2, <2>1, <2>2 DEF UnlinkFails, UnlinkAtOnce
  <1>5. CASE Check(h) \/ Copied(h) \/ Failure(h)
    BY <1>1, <1>5, CheckIs, CopiedIs, FailureIs
  <1>6. CASE Commit(h) \/ Mark(h) \/ Purge(h) \/ Complete(h)
    BY <1>1, <1>6, CommitIs, MarkIs, PurgeIs, CompleteIs
  <1>7. CASE Request(h)
    BY <1>1, <1>7, TrashOrDeleteIs, RestoreIs, RenameIs DEF Request
  <1> QED BY <1>3, <1>4, <1>5, <1>6, <1>7 DEF Step

\* Another request's step leaves a removal's files alone.
LEMMA SoFarSame ==
  ASSUME NEW a \in RequestTypes, InShape(a), Forward(a), NEW b, Alike(a, b), NEW dst, NEW old, NEW new,
         \A k \in Kinds : new[Stash(a.id, k)] = old[Stash(a.id, k)],
         RemovedSoFar(a, dst, old), a.pc = "copying" => b.dst = a.dst
  PROVE  RemovedSoFar(b, dst, new)
  <1>1. /\ b.pc = a.pc /\ b.id = a.id /\ b.kinds = a.kinds /\ b.todo = a.todo /\ b.moved = a.moved
    BY DEF Alike
  <1>2. /\ ToSet(a.todo) \subseteq Kinds /\ ToSet(a.moved) \subseteq Kinds /\ a.kinds \subseteq Kinds
    BY OrdersKinds DEF RequestTypes
  <1>3. a.pc \in {"copying", "unlink"} => Head(a.todo) \in Kinds
    BY OrdersFirst DEF RequestTypes, InShape, Moving
  <1>4. NotYet(b, new)
    BY <1>1, <1>2 DEF RemovedSoFar, NotYet
  <1>5. InPart(b, dst, new)
    BY <1>1, <1>3 DEF RemovedSoFar, InPart
  <1>6. InFull(b, new)
    BY <1>1, <1>3 DEF RemovedSoFar, InFull
  <1>7. HasMoved(b, new)
    BY <1>1, <1>2 DEF RemovedSoFar, HasMoved
  <1> QED BY <1>4, <1>5, <1>6, <1>7 DEF RemovedSoFar

LEMMA ForwardAlike ==
  ASSUME NEW a, NEW b, Alike(a, b)
  PROVE  Forward(b) <=> Forward(a)
  BY DEF Alike, Forward, Removes

LEMMA RemovedByOthers ==
  ASSUME ControlInv, StashInv, NEW h \in Handlers, Step(h) \/ Request(h) \/ Failure(h),
         NEW g \in Handlers \ {h}
  PROVE  Removed(g)'
  <1>1. Alike(handler[g], handler'[g]) /\ Ends(g)' = Ends(g)
    BY OthersAlike, EndsSame
  <1>2. handler[g] \in RequestTypes /\ InShape(handler[g])
    BY DEF ControlInv, LibraryTypes
  <1>3. SUFFICES ASSUME Forward(handler[g])
                 PROVE  RemovedSoFar(handler'[g], Ends(g).dst, files')
    BY <1>1, ForwardAlike, RemovedIs DEF Removed, RemovedSoFar, NotYet, InPart, InFull, HasMoved
  <1>4. RemovedSoFar(handler[g], Ends(g).dst, files) /\ Written(h)
    BY <1>3, RemovedIs DEF StashInv
  <1>5. handler[g].id \in Ids /\ handler[g].id # handler[h].id
    BY <1>2, <1>3 DEF ControlInv, MadeAlone, InShape, Forward, Removes
  <1>6. \A k \in Kinds : files'[Stash(handler[g].id, k)] = files[Stash(handler[g].id, k)]
    BY <1>4, <1>5, StashSame
  <1>7. handler[g].pc = "copying" => handler'[g].dst = handler[g].dst
    <2> SUFFICES ASSUME handler[g].pc = "copying" PROVE handler'[g].dst = handler[g].dst
      OBVIOUS
    <2>1. Moving(handler[g]) /\ handler[g].dst = Ends(g).dst
      BY <1>4 DEF Moving, RemovedSoFar, InPart
    <2>2. Stashing(handler[g]) /\ handler[g].op # "rename"
      BY <1>2, <1>3 DEF Stashing, Forward, Removes, RequestTypes
    <2>3. Ends(g).dst = Stash(handler[g].id, Head(handler[g].todo)) /\ Head(handler[g].todo) \in Kinds
      BY <2>1, <2>2, EndsOfRequest
    <2> QED BY <1>5, <2>1, <2>3, DstSame
  <1> QED BY <1>1, <1>2, <1>3, <1>4, <1>6, <1>7, SoFarSame

LEMMA RemovedByTheRest ==
  ASSUME ControlInv, StashInv, Publish \/ Crash, NEW g \in Handlers
  PROVE  Removed(g)'
  <1>1. CASE Crash
    BY <1>1, CrashIs DEF Removed, Forward, Removes
  <1>2. CASE Publish
    <2>1. rec' = rec /\ Alike(handler[g], handler'[g])
      BY <1>2, PublishIs
    <2>2. PICK home \in Places : /\ home \notin Stashes
                                 /\ handler'[g].dst = FollowDst(handler[g], home, Nowhere)
      BY <1>2, PublishIs
    <2>3. EndsOf(handler'[g], rec) = EndsOf(handler[g], rec)
      BY <2>1, EndsOfSame DEF Alike
    <2>4. Ends(g)' = Ends(g)
      BY <2>1, <2>3 DEF Ends
    <2>5. handler[g] \in RequestTypes /\ InShape(handler[g])
      BY DEF ControlInv, LibraryTypes
    <2>6. SUFFICES ASSUME Forward(handler[g])
                   PROVE  RemovedSoFar(handler'[g], Ends(g).dst, files')
      BY <2>1, <2>4, ForwardAlike DEF Removed, RemovedSoFar, NotYet, InPart, InFull, HasMoved
    <2>7. RemovedSoFar(handler[g], Ends(g).dst, files)
      BY <2>6, RemovedIs DEF StashInv
    <2>8. handler[g].id \in Ids
      BY <2>5, <2>6 DEF InShape, Forward, Removes
    <2>9. \A k \in Kinds : files'[Stash(handler[g].id, k)] = files[Stash(handler[g].id, k)]
      BY <2>8, <1>2, StashLeft
    <2>10. handler[g].pc = "copying" => handler'[g].dst = handler[g].dst
      <3> SUFFICES ASSUME handler[g].pc = "copying" PROVE handler'[g].dst = handler[g].dst
        OBVIOUS
      <3>1. Moving(handler[g]) /\ handler[g].dst = Ends(g).dst
        BY <2>7 DEF Moving, RemovedSoFar, InPart
      <3>2. Stashing(handler[g]) /\ handler[g].op # "rename"
        BY <2>5, <2>6 DEF Stashing, Forward, Removes, RequestTypes
      <3>3. handler[g].dst \in Stashes /\ handler[g].dst \in Places
        BY <3>1, <3>2, EndsOfRequest, StashesAre
      <3> QED BY <2>2, <3>3, LibraryAssumption DEF FollowDst
    <2> QED BY <2>1, <2>5, <2>6, <2>7, <2>9, <2>10, SoFarSame
  <1> QED BY <1>1, <1>2

\* A removal that moves its next file at once, or has copied it.
LEMMA SoFarAdvances ==
  ASSUME NEW a \in RequestTypes, InShape(a), Forward(a), a.pc \in {"move", "unlink"},
         NEW b, Advances(a, b), NEW dst, NEW there, NEW old, NEW new, RemovedSoFar(a, dst, old),
         \A k \in Kinds : k # Head(a.todo) => new[Stash(a.id, k)] = old[Stash(a.id, k)],
         new[Stash(a.id, Head(a.todo))] \in {"cut", "whole"}
  PROVE  RemovedSoFar(b, there, new)
  <1>1. /\ b.id = a.id /\ b.todo = Tail(a.todo) /\ b.moved = Append(a.moved, Head(a.todo))
        /\ b.pc \in {"move", "commit"} /\ ~a.undo
    BY DEF Advances, Forward
  <1>2. /\ a.todo \in Orders /\ a.moved \in Orders /\ a.todo # <<>>
        /\ ToSet(a.todo) \subseteq Kinds /\ ToSet(a.moved) \subseteq Kinds
    BY OrdersKinds DEF RequestTypes, InShape, Moving
  <1>3. /\ ToSet(b.todo) = ToSet(a.todo) \ {Head(a.todo)}
        /\ Head(a.todo) \in ToSet(a.todo) /\ Head(a.todo) \in Kinds
    BY <1>1, <1>2, OrdersFirst
  <1>4. Head(a.todo) \notin ToSet(a.moved)
    BY <1>1, <1>3 DEF InShape
  <1>5. ToSet(b.moved) = ToSet(a.moved) \cup {Head(a.todo)}
    BY <1>1, <1>2, <1>3, <1>4, OrdersLast
  <1>6. NotYet(b, new)
    <2>1. \A k \in ToSet(b.todo) : new[Stash(a.id, k)] = "none"
      BY <1>2, <1>3 DEF RemovedSoFar, NotYet
    <2> QED BY <1>1, <2>1 DEF NotYet
  <1>7. HasMoved(b, new)
    <2>1. \A k \in ToSet(a.moved) : old[Stash(a.id, k)] \in {"cut", "whole"}
      BY DEF RemovedSoFar, HasMoved
    <2>2. \A k \in ToSet(b.moved) : new[Stash(a.id, k)] \in {"cut", "whole"}
      BY <1>2, <1>4, <1>5, <2>1
    <2> QED BY <1>1, <2>2 DEF HasMoved
  <1> QED BY <1>1, <1>6, <1>7 DEF RemovedSoFar, InPart, InFull

\* A removal that starts to copy its next file, or has copied it.
LEMMA SoFarGoes ==
  ASSUME NEW a \in RequestTypes, InShape(a), Forward(a), Moving(a), NEW pc \in {"copying", "unlink"},
         NEW b, Goes(a, b, pc), NEW dst, NEW old, NEW new, RemovedSoFar(a, dst, old),
         \A k \in Kinds : k # Head(a.todo) => new[Stash(a.id, k)] = old[Stash(a.id, k)],
         \/ pc = "copying" /\ b.dst = dst /\ new[Stash(a.id, Head(a.todo))] = "part"
         \/ pc = "unlink" /\ new[Stash(a.id, Head(a.todo))] \in {"cut", "whole"}
  PROVE  RemovedSoFar(b, dst, new)
  <1>1. b.id = a.id /\ b.todo = a.todo /\ b.moved = a.moved /\ b.pc = pc
    BY DEF Goes
  <1>2. /\ a.todo \in Orders /\ a.moved \in Orders /\ a.todo # <<>> /\ ~a.undo
        /\ ToSet(a.todo) \subseteq Kinds /\ ToSet(a.moved) \subseteq Kinds
    BY OrdersKinds DEF RequestTypes, InShape, Forward
  <1>3. Head(a.todo) \in ToSet(a.todo) /\ Head(a.todo) \notin ToSet(a.moved)
    BY <1>2, OrdersFirst DEF InShape
  <1>4. NotYet(b, new)
    <2>1. \A k \in ToSet(a.todo) : k # Head(a.todo) => new[Stash(a.id, k)] = "none"
      BY <1>2 DEF RemovedSoFar, NotYet
    <2> QED BY <1>1, <2>1 DEF NotYet
  <1>5. HasMoved(b, new)
    <2>1. \A k \in ToSet(a.moved) : old[Stash(a.id, k)] \in {"cut", "whole"}
      BY DEF RemovedSoFar, HasMoved, Moving
    <2>2. \A k \in ToSet(a.moved) : new[Stash(a.id, k)] \in {"cut", "whole"}
      BY <1>2, <1>3, <2>1
    <2> QED BY <1>1, <2>2 DEF HasMoved
  <1> QED BY <1>1, <1>4, <1>5 DEF RemovedSoFar, InPart, InFull

\* The places of a removal that moves a file.
LEMMA ForwardPlaces ==
  ASSUME ControlInv, NEW h \in Handlers, Forward(handler[h]), Moving(handler[h])
  PROVE  LET own == handler[h]
         IN  /\ Ends(h).dst = Stash(own.id, Head(own.todo)) /\ Ends(h).src \notin Stashes
             /\ Ends(h).src \in Places /\ Ends(h).dst \in Places
             /\ own.id \in Ids /\ own.op # "rename" /\ own.op \in {"trash", "delete"}
             /\ Head(own.todo) \in Kinds /\ Stashing(own)
             /\ \A k \in Kinds : k # Head(own.todo) =>
                  Stash(own.id, k) \in Places /\ Stash(own.id, k) # Ends(h).dst
  <1> DEFINE own == handler[h]
             src == Ends(h).src
             kind == Head(own.todo)
  <1>1. own.op \in {"trash", "delete"} /\ ~own.undo /\ own.undo \in BOOLEAN
    BY DEF Forward, Removes, ControlInv, LibraryTypes, RequestTypes
  <1>2. Stashing(own) /\ own.op # "rename"
    BY <1>1 DEF Stashing
  <1>3. /\ kind \in Kinds /\ own.row.path \in Paths /\ src = Home(kind, own.row.path)
        /\ Ends(h).dst = Stash(own.id, kind) /\ own.id \in Ids /\ src \in Places /\ Ends(h).dst \in Places
    BY <1>1, <1>2, EndsOfRequest
  <1>4. src \notin Stashes
    BY <1>3, HomesAre
  <1>5. \A k \in Kinds : k # kind => Stash(own.id, k) \in Places /\ Stash(own.id, k) # Stash(own.id, kind)
    BY <1>3, StashesAre, StashesDiffer
  <1> QED BY <1>1, <1>2, <1>3, <1>4, <1>5

LEMMA RemovedAdvances ==
  ASSUME ControlInv, NEW h \in Handlers, Forward(handler[h]), handler[h].pc \in {"move", "unlink"},
         NEW r, Advances(handler[h], r), NEW there, RemovedSoFar(handler[h], Ends(h).dst, files),
         files' \in [Places -> Contents],
         \A k \in Kinds : k # Head(handler[h].todo) =>
           files'[Stash(handler[h].id, k)] = files[Stash(handler[h].id, k)],
         files'[Stash(handler[h].id, Head(handler[h].todo))] \in {"cut", "whole"}
  PROVE  RemovedSoFar(r, there, files')
  <1>1. PICK a \in RequestTypes : a = handler[h]
    BY DEF ControlInv, LibraryTypes
  <1>2. PICK new \in [Places -> Contents] : new = files'
    OBVIOUS
  <1>3. InShape(a) /\ Forward(a) /\ a.pc \in {"move", "unlink"} /\ Advances(a, r)
    BY <1>1 DEF ControlInv
  <1>4. RemovedSoFar(a, Ends(h).dst, files)
    BY <1>1
  <1>5. \A k \in Kinds : k # Head(a.todo) => new[Stash(a.id, k)] = files[Stash(a.id, k)]
    BY <1>1, <1>2
  <1>6. new[Stash(a.id, Head(a.todo))] \in {"cut", "whole"}
    BY <1>1, <1>2
  <1>7. RemovedSoFar(r, there, new)
    BY <1>3, <1>4, <1>5, <1>6, SoFarAdvances
  <1> QED BY <1>2, <1>7

LEMMA RemovedGoes ==
  ASSUME ControlInv, NEW h \in Handlers, Forward(handler[h]), Moving(handler[h]),
         NEW pc \in {"copying", "unlink"}, NEW r, Goes(handler[h], r, pc),
         RemovedSoFar(handler[h], Ends(h).dst, files), files' \in [Places -> Contents],
         \A k \in Kinds : k # Head(handler[h].todo) =>
           files'[Stash(handler[h].id, k)] = files[Stash(handler[h].id, k)],
         \/ /\ pc = "copying" /\ r.dst = Ends(h).dst
            /\ files'[Stash(handler[h].id, Head(handler[h].todo))] = "part"
         \/ /\ pc = "unlink"
            /\ files'[Stash(handler[h].id, Head(handler[h].todo))] \in {"cut", "whole"}
  PROVE  RemovedSoFar(r, Ends(h).dst, files')
  <1>1. PICK a \in RequestTypes : a = handler[h]
    BY DEF ControlInv, LibraryTypes
  <1>2. PICK new \in [Places -> Contents] : new = files'
    OBVIOUS
  <1>3. InShape(a) /\ Forward(a) /\ Moving(a) /\ Goes(a, r, pc)
    BY <1>1 DEF ControlInv
  <1>4. RemovedSoFar(a, Ends(h).dst, files)
    BY <1>1
  <1>5. \A k \in Kinds : k # Head(a.todo) => new[Stash(a.id, k)] = files[Stash(a.id, k)]
    BY <1>1, <1>2
  <1>6. \/ pc = "copying" /\ r.dst = Ends(h).dst /\ new[Stash(a.id, Head(a.todo))] = "part"
        \/ pc = "unlink" /\ new[Stash(a.id, Head(a.todo))] \in {"cut", "whole"}
    BY <1>1, <1>2
  <1>7. RemovedSoFar(r, Ends(h).dst, new)
    BY <1>3, <1>4, <1>5, <1>6, SoFarGoes
  <1> QED BY <1>2, <1>7

LEMMA RemovedByOwn ==
  ASSUME ControlInv, StashInv, NEW h \in Handlers, Step(h) \/ Request(h) \/ Failure(h)
  PROVE  Removed(h)'
  <1> DEFINE own == handler[h]
             src == Ends(h).src
             dst == Ends(h).dst
             kind == Head(own.todo)
             at == Stash(own.id, kind)
  <1>1. own \in RequestTypes /\ InShape(own) /\ files \in [Places -> Contents] /\ own.undo \in BOOLEAN
    BY DEF ControlInv, LibraryTypes, RequestTypes
  <1>2. SUFFICES ASSUME Forward(handler'[h]) PROVE RemovedSoFar(handler'[h], Ends(h)'.dst, files')
    BY DEF Removed, RemovedSoFar, NotYet, InPart, InFull, HasMoved
  <1>3. Forward(own) => RemovedSoFar(own, dst, files)
    BY RemovedIs DEF StashInv
  <1>4. ASSUME NEW r, handler'[h] = r, Fails(own, r) \/ r = IdleHandler PROVE FALSE
    BY <1>2, <1>4 DEF Fails, Forward, Removes, IdleHandler
  <1>5. ASSUME NEW r, NEW pc, handler'[h] = r, Goes(own, r, pc)
        PROVE  Forward(own) /\ EndsOf(r, rec) = EndsOf(own, rec)
    <2>1. EndsOf(r, rec) = EndsOf(own, rec)
      BY <1>5, EndsOfSame DEF Goes
    <2> QED BY <1>2, <1>5, <2>1 DEF Goes, Forward, Removes
  <1>6. CASE Check(h)
    <2>1. own.pc = "check" /\ \E r \in RequestTypes : Turns(h, r) /\ (Fails(own, r) \/ Goes(own, r, "move"))
      BY <1>6, CheckIs
    <2>2. ~Forward(own)
      BY <1>1, <2>1 DEF InShape
    <2> QED BY <1>4, <1>5, <2>1, <2>2 DEF Turns
  <1>7. CASE Failure(h)
    <2>1. \E r \in RequestTypes : Turns(h, r) /\ (Fails(own, r) \/ r = IdleHandler)
      BY <1>7, FailureIs
    <2> QED BY <1>4, <2>1 DEF Turns
  <1>8. CASE Move(h)
    <2>1. own.pc = "move" /\ Moving(own) /\ rec' = rec
      BY <1>8, MoveIs, MovingPcs DEF FilesOnly
    <2>2. PICK r \in RequestTypes : Turns(h, r) /\ (MoveFails(h, r) \/ MoveAtOnce(h, r) \/ MoveCopies(h, r))
      BY <1>8, MoveIs
    <2>3. handler'[h] = r
      BY <2>2 DEF Turns
    <2>4. CASE MoveFails(h, r)
      BY <1>4, <2>3, <2>4 DEF MoveFails
    <2>5. CASE MoveAtOnce(h, r)
      <3>1. Advances(own, r) /\ files' = [files EXCEPT ![src] = "none", ![dst] = files[src]]
            /\ Regular(src) /\ (~Apart \/ own.op = "rename")
        BY <2>5 DEF MoveAtOnce
      <3>2. Forward(own)
        BY <1>2, <2>3, <3>1 DEF Advances, Forward, Removes
      <3>3. /\ dst = at /\ src # at /\ at \in Places /\ src \in Places /\ src \notin Stashes
            /\ own.op # "rename" /\ own.id \in Ids
            /\ \A k \in Kinds : k # kind => Stash(own.id, k) \in Places /\ Stash(own.id, k) # dst
                                            /\ Stash(own.id, k) # src
        BY <2>1, <3>2, ForwardPlaces, StashesAre
      <3>4. files[src] = "whole"
        <4>1. files[src] \in {"none", "whole"}
          BY <3>1, <3>3 DEF StashInv, ApartFiles
        <4> QED BY <3>1, <4>1 DEF Regular
      <3>5. \A k \in Kinds : k # kind => files'[Stash(own.id, k)] = files[Stash(own.id, k)]
        <4> HIDE DEF src, dst
        <4> QED BY <1>1, <3>1, <3>3
      <3>6. files'[at] = "whole"
        <4> HIDE DEF src, dst, at
        <4> QED BY <1>1, <3>1, <3>3, <3>4
      <3>7. RemovedSoFar(own, dst, files)
        BY <1>3, <3>2
      <3>8. RemovedSoFar(r, Ends(h)'.dst, files')
        <4>1. own.pc \in {"move", "unlink"} /\ files'[at] \in {"cut", "whole"}
          BY <2>1, <3>6
        <4>2. files' \in [Places -> Contents]
          BY <1>8, MoveIs
        <4> QED BY <3>1, <3>2, <3>5, <3>7, <4>1, <4>2, RemovedAdvances
      <3> QED BY <2>3, <3>8
    <2>6. CASE MoveCopies(h, r)
      <3>1. Goes(own, r, "copying") /\ r.dst = dst /\ files' = [files EXCEPT ![dst] = "part"]
        BY <2>6 DEF MoveCopies
      <3>2. Forward(own) /\ Ends(h)'.dst = dst
        BY <1>5, <2>1, <2>3, <3>1 DEF Ends
      <3>3. /\ dst = at /\ at \in Places
            /\ \A k \in Kinds : k # kind => Stash(own.id, k) \in Places /\ Stash(own.id, k) # dst
        BY <2>1, <3>2, ForwardPlaces
      <3>4. \A k \in Kinds : k # kind => files'[Stash(own.id, k)] = files[Stash(own.id, k)]
        BY <1>1, <3>1, <3>3
      <3>5. files'[at] = "part"
        BY <1>1, <3>1, <3>3
      <3>6. RemovedSoFar(r, dst, files')
        <4>1. RemovedSoFar(own, dst, files)
          BY <1>3, <3>2
        <4>2. files' \in [Places -> Contents]
          BY <1>8, MoveIs
        <4> QED BY <2>1, <3>1, <3>2, <3>4, <3>5, <4>1, <4>2, RemovedGoes
      <3> QED BY <2>3, <3>2, <3>6
    <2> QED BY <2>2, <2>4, <2>5, <2>6
  <1>9. CASE Copied(h)
    <2>1. /\ own.pc = "copying" /\ Moving(own) /\ rec' = rec
          /\ files' = IF own.dst = Nowhere THEN files ELSE [files EXCEPT ![own.dst] = own.got]
      BY <1>9, CopiedIs, MovingPcs DEF FilesOnly
    <2>2. PICK r \in RequestTypes : Turns(h, r) /\ (Fails(own, r) \/ Goes(own, r, "unlink"))
      BY <1>9, CopiedIs
    <2>3. handler'[h] = r /\ Goes(own, r, "unlink")
      BY <1>4, <2>2 DEF Turns
    <2>4. Forward(own) /\ Ends(h)'.dst = dst
      BY <1>5, <2>1, <2>3 DEF Ends
    <2>5. /\ dst = at /\ at \in Places
          /\ \A k \in Kinds : k # kind => Stash(own.id, k) \in Places /\ Stash(own.id, k) # dst
      BY <2>1, <2>4, ForwardPlaces
    <2>6. own.dst = dst /\ own.got \in {"cut", "whole"} /\ own.dst # Nowhere
      BY <1>1, <1>3, <2>1, <2>4, <2>5, LibraryAssumption DEF RemovedSoFar, InPart, InShape
    <2>7. files' = [files EXCEPT ![dst] = own.got]
      BY <2>1, <2>6
    <2>8. \A k \in Kinds : k # kind => files'[Stash(own.id, k)] = files[Stash(own.id, k)]
      BY <1>1, <2>7, <2>5
    <2>9. files'[at] \in {"cut", "whole"}
      BY <1>1, <2>7, <2>5, <2>6
    <2>10. RemovedSoFar(r, dst, files')
      <3>1. RemovedSoFar(own, dst, files)
        BY <1>3, <2>4
      <3>2. files' \in [Places -> Contents]
        BY <1>9, CopiedIs
      <3> QED BY <2>1, <2>3, <2>4, <2>8, <2>9, <3>1, <3>2, RemovedGoes
    <2> QED BY <2>3, <2>4, <2>10
  <1>10. CASE Unlink(h)
    <2>1. own.pc = "unlink" /\ Moving(own)
      BY <1>10, UnlinkIs, MovingPcs
    <2>2. PICK r \in RequestTypes : Turns(h, r) /\ (UnlinkFails(h, r) \/ UnlinkAtOnce(h, r))
      BY <1>10, UnlinkIs
    <2>3. handler'[h] = r /\ Advances(own, r) /\ files' = [files EXCEPT ![src] = "none"]
      BY <1>4, <2>2 DEF Turns, UnlinkFails, UnlinkAtOnce
    <2>4. Forward(own)
      BY <1>2, <2>3 DEF Advances, Forward, Removes
    <2>5. /\ dst = at /\ src # at /\ at \in Places /\ src \in Places /\ src \notin Stashes /\ own.id \in Ids
          /\ \A k \in Kinds : k # kind => Stash(own.id, k) \in Places /\ Stash(own.id, k) # src
      BY <2>1, <2>4, ForwardPlaces, StashesAre
    <2>6. files[at] \in {"cut", "whole"}
      BY <1>3, <2>1, <2>4 DEF RemovedSoFar, InFull
    <2>7. \A k \in Kinds : k # kind => files'[Stash(own.id, k)] = files[Stash(own.id, k)]
      BY <1>1, <2>3, <2>5
    <2>8. files'[at] \in {"cut", "whole"}
      BY <1>1, <2>3, <2>5, <2>6
    <2>9. RemovedSoFar(own, dst, files)
      BY <1>3, <2>4
    <2>10. RemovedSoFar(handler'[h], Ends(h)'.dst, files')
      <3>1. Advances(own, handler'[h]) /\ own.pc \in {"move", "unlink"}
        BY <2>1, <2>3
      <3>2. files' \in [Places -> Contents]
        BY <1>10, UnlinkIs
      <3>3. PICK r2 \in RequestTypes : r2 = handler'[h]
        BY <2>2 DEF Turns
      <3>4. RemovedSoFar(r2, Ends(h)'.dst, files')
        BY <3>1, <3>2, <3>3, <2>4, <2>7, <2>8, <2>9, RemovedAdvances
      <3> QED BY <3>3, <3>4
    <2> QED BY <2>10
  <1>11. CASE Commit(h)
    <2>1. /\ files' = files /\ own.pc = "commit" /\ own.todo = <<>>
          /\ \E r \in RequestTypes : Turns(h, r) /\ (r = IdleHandler \/ Goes(own, r, "purge"))
      BY <1>11, CommitIs
    <2>2. PICK r \in RequestTypes : Turns(h, r) /\ (r = IdleHandler \/ Goes(own, r, "purge"))
      BY <2>1
    <2>3. handler'[h] = r /\ Goes(own, r, "purge")
      BY <1>4, <2>2 DEF Turns
    <2>4. RemovedSoFar(own, dst, files)
      BY <1>3, <1>5, <2>3
    <2>5. /\ r.id = own.id /\ r.todo = <<>> /\ r.moved = own.moved /\ r.pc = "purge"
      BY <2>1, <2>3 DEF Goes
    <2>6. HasMoved(r, files')
      BY <2>1, <2>4, <2>5 DEF RemovedSoFar, HasMoved
    <2> QED BY <2>3, <2>5, <2>6, OrdersEmpty DEF RemovedSoFar, NotYet, InPart, InFull
  <1>12. CASE Mark(h) \/ Complete(h)
    BY <1>4, <1>12, MarkIs, CompleteIs DEF Turns
  <1>13. CASE Purge(h)
    <2>1. /\ own.todo = <<>>
          /\ \E r \in RequestTypes : Turns(h, r) /\ Goes(own, r, "complete")
      BY <1>13, PurgeIs
    <2>2. PICK r \in RequestTypes : handler'[h] = r /\ Goes(own, r, "complete")
      BY <2>1 DEF Turns
    <2>3. r.todo = <<>> /\ r.pc = "complete"
      BY <2>1, <2>2 DEF Goes
    <2> QED BY <2>2, <2>3, OrdersEmpty DEF RemovedSoFar, NotYet, InPart, InFull, HasMoved
  <1>14. CASE TrashOrDelete(h)
    <2>1. PICK op \in {"trash", "delete"}, kinds \in SUBSET Kinds, id \in Ids, r \in RequestTypes :
            Turns(h, r) /\ Starts(h, r, op, id, kinds, "none") /\ rec[id] = NoRecord
      BY <1>14, TrashOrDeleteIs
    <2>2. handler'[h] = r /\ files' = files
      BY <1>14, <2>1, TrashOrDeleteIs DEF Turns
    <2>3. r.pc = "move" /\ r.id = id /\ ToSet(r.todo) = kinds /\ r.moved = <<>>
      BY <2>1 DEF Starts
    <2>4. \A k \in Kinds : files[Stash(id, k)] = "none"
      <3>1. rec[id].kinds = {}
        BY <2>1 DEF NoRecord
      <3> QED BY <3>1, FilesInRecord DEF StashInv
    <2>5. NotYet(r, files')
      BY <2>2, <2>3, <2>4 DEF NotYet
    <2>6. HasMoved(r, files')
      BY <2>3, OrdersEmpty DEF HasMoved
    <2> QED BY <2>2, <2>3, <2>5, <2>6 DEF RemovedSoFar, InPart, InFull
  <1>15. CASE Restore(h)
    <2>1. \E id \in Ids, r \in RequestTypes : Turns(h, r) /\ Starts(h, r, "restore", id, rec[id].kinds, "none")
      BY <1>15, RestoreIs
    <2> QED BY <1>2, <2>1 DEF Turns, Starts, Forward, Removes
  <1>16. CASE Rename(h)
    <2>1. \E to \in Paths, r \in RequestTypes : Turns(h, r) /\ Starts(h, r, "rename", Nowhere, {"source"}, to)
      BY <1>16, RenameIs
    <2> QED BY <1>2, <2>1 DEF Turns, Starts, Forward, Removes
  <1> QED BY <1>6, <1>7, <1>8, <1>9, <1>10, <1>11, <1>12, <1>13, <1>14, <1>15, <1>16 DEF Step, Request

-----------------------------------------------------------------------------
(* Without copying, a file is whole or not there.                          *)

LEMMA ApartStep ==
  ASSUME ControlInv, ApartFiles, [Next]_vars
  PROVE  ApartFiles'
  <1>1. SUFFICES ASSUME ~Apart, NEW place \in Places
                 PROVE  files'[place] \in {"none", "whole"}
    BY DEF ApartFiles
  <1>2. \A p \in Places : files[p] \in {"none", "whole"}
    BY <1>1 DEF ApartFiles
  <1>3. files \in [Places -> Contents] /\ \A h \in Handlers : InShape(handler[h])
    BY DEF ControlInv, LibraryTypes
  <1>4. \A h \in Handlers : handler[h].pc \notin {"copying", "unlink"}
    BY <1>1, <1>3 DEF InShape
  <1>5. CASE files' = files
    BY <1>2, <1>5
  <1>6. ASSUME NEW h \in Handlers, Move(h) PROVE files'[place] \in {"none", "whole"}
    <2>1. Moving(handler[h])
      BY <1>6, MoveIs, MovingPcs
    <2>2. PICK r \in RequestTypes : MoveFails(h, r) \/ MoveAtOnce(h, r) \/ MoveCopies(h, r)
      BY <1>6, MoveIs
    <2> DEFINE src == Ends(h).src
               dst == Ends(h).dst
    <2>3. src \in Places /\ dst \in Places
      BY <2>1, EndsOfRequest
    <2>4. files' = files \/ files' = [files EXCEPT ![src] = "none", ![dst] = files[src]]
      BY <1>1, <2>2 DEF MoveFails, MoveAtOnce, MoveCopies, Quiet
    <2> HIDE DEF src, dst
    <2> QED BY <1>2, <1>3, <2>3, <2>4
  <1>7. ASSUME NEW h \in Handlers, Purge(h) PROVE files'[place] \in {"none", "whole"}
    <2>1. PICK gone \in SUBSET handler[h].kinds :
            files' = [p \in Places |-> IF p \in {handler[h].id} \X gone THEN "none" ELSE files[p]]
      BY <1>7, PurgeIs
    <2> QED BY <1>2, <2>1
  <1>8. CASE Publish
    <2>1. \E home \in Places : files' = [files EXCEPT ![home] = "whole"]
      BY <1>8, PublishIs
    <2> QED BY <1>2, <1>3, <2>1
  <1>9. CASE Crash
    BY <1>5, <1>9, CrashIs DEF Quiet
  <1>10. ASSUME NEW h \in Handlers, Request(h) \/ Step(h) \/ Failure(h)
         PROVE  files'[place] \in {"none", "whole"}
    <2>1. CASE Copied(h) \/ Unlink(h)
      BY <1>4, <2>1, CopiedIs, UnlinkIs
    <2>2. CASE Check(h) \/ Failure(h)
      BY <1>5, <2>2, CheckIs, FailureIs DEF Quiet
    <2>3. CASE Commit(h) \/ Mark(h) \/ Complete(h)
      BY <1>5, <2>3, CommitIs, MarkIs, CompleteIs
    <2>4. CASE Request(h)
      BY <1>5, <2>4, TrashOrDeleteIs, RestoreIs, RenameIs DEF Request, Quiet
    <2> QED BY <1>6, <1>7, <1>10, <2>1, <2>2, <2>3, <2>4 DEF Step
  <1>11. CASE UNCHANGED vars
    BY <1>5, <1>11 DEF vars
  <1> QED BY <1>8, <1>9, <1>10, <1>11 DEF Next, Action

-----------------------------------------------------------------------------
(* What the trash lists can be restored.                                   *)

Listed(its) == its.op = "trash" /\ its.status = "active" /\ ~its.restoring

LEMMA ListedByRequests ==
  ASSUME ControlInv, StashInv, ListedTrashIsComplete, NEW h \in Handlers,
         Step(h) \/ Request(h) \/ Failure(h)
  PROVE  ListedTrashIsComplete'
  <1> DEFINE own == handler[h]
  <1>1. SUFFICES ASSUME NEW i \in Ids, Listed(rec'[i]), NEW k \in rec'[i].kinds
                 PROVE  files'[Stash(i, k)] \in {"cut", "whole"}
    BY DEF ListedTrashIsComplete, Listed
  <1>2. /\ rec \in [Ids -> RecordTypes \cup {NoRecord}] /\ rec' \in [Ids -> RecordTypes \cup {NoRecord}]
        /\ own \in RequestTypes /\ InShape(own)
        /\ Written(h) /\ (Forward(own) => RemovedSoFar(own, Ends(h).dst, files))
    <2>1. rec' \in [Ids -> RecordTypes \cup {NoRecord}]
      <3>2. CASE rec' = rec
        BY <3>2 DEF ControlInv, LibraryTypes
      <3>3. CASE \E status : StatusBecomes(own.id, status)
        BY <3>3 DEF StatusBecomes
      <3>4. CASE TrashOrDelete(h)
        BY <3>4, TrashOrDeleteIs DEF ControlInv, LibraryTypes
      <3>5. CASE Restore(h)
        BY <3>5, RestoreIs
      <3>6. CASE Check(h) \/ Failure(h) \/ Rename(h)
        BY <3>2, <3>6, CheckIs, FailureIs, RenameIs DEF Quiet
      <3>7. CASE Move(h) \/ Copied(h) \/ Unlink(h) \/ Purge(h)
        BY <3>2, <3>7, MoveIs, CopiedIs, UnlinkIs, PurgeIs DEF FilesOnly
      <3>8. CASE Mark(h) \/ Complete(h)
        BY <3>3, <3>8, MarkIs, CompleteIs
      <3>9. CASE Commit(h)
        BY <3>2, <3>3, <3>9, CommitIs
      <3> QED BY <3>4, <3>5, <3>6, <3>7, <3>8, <3>9 DEF Step, Request
    <2> QED BY <2>1, RemovedIs DEF ControlInv, LibraryTypes, StashInv
  <1>3. rec'[i].op = "trash" /\ rec'[i].status = "active" /\ ~rec'[i].restoring
    BY <1>1 DEF Listed
  <1>4. k \in Kinds
    BY <1>1, <1>2, <1>3 DEF RecordTypes, NoRecord
  <1>5. CASE Listed(rec[i]) /\ rec'[i].kinds = rec[i].kinds
    <2>1. i # own.id
      <3> SUFFICES ASSUME i = own.id PROVE FALSE
        OBVIOUS
      <3>1. own.op \in {"trash", "delete", "restore"}
        BY <1>2, LibraryAssumption DEF InShape
      <3>2. RecordedAs(own, rec[i])
        BY <3>1 DEF ControlInv, Recorded
      <3> QED BY <1>5, <3>1, <3>2 DEF RecordedAs, Removes, Listed
    <2>2. files'[Stash(i, k)] = files[Stash(i, k)]
      BY <1>2, <1>4, <2>1, StashSame
    <2> QED BY <1>1, <1>5, <2>2 DEF ListedTrashIsComplete, Listed
  <1>6. CASE rec' = rec
    BY <1>1, <1>5, <1>6
  <1>7. ASSUME NEW status, StatusBecomes(own.id, status), i = own.id => status = rec[i].status
        PROVE  files'[Stash(i, k)] \in {"cut", "whole"}
    BY <1>3, <1>5, <1>7 DEF StatusBecomes, Listed
  <1>8. CASE Check(h) \/ Failure(h)
    BY <1>6, <1>8, CheckIs, FailureIs DEF Quiet
  <1>9. CASE Move(h) \/ Copied(h) \/ Unlink(h) \/ Purge(h)
    BY <1>6, <1>9, MoveIs, CopiedIs, UnlinkIs, PurgeIs DEF FilesOnly
  <1>10. CASE Mark(h)
    <2>1. \/ StatusBecomes(own.id, "failed")
          \/ StatusBecomes(own.id, rec[own.id].status)
      BY <1>10, MarkIs
    <2>2. StatusBecomes(own.id, "failed") => i # own.id
      BY <1>3 DEF StatusBecomes
    <2> QED BY <1>7, <2>1, <2>2
  <1>11. CASE Complete(h)
    <2>1. \E status : StatusBecomes(own.id, status) /\ status # "active"
      BY <1>11, CompleteIs DEF Closings
    <2>2. i # own.id
      BY <1>3, <2>1 DEF StatusBecomes
    <2> QED BY <1>7, <2>1, <2>2
  <1>12. CASE Commit(h)
    <2>1. /\ own.todo = <<>> /\ ~own.undo /\ files' = files /\ own.pc = "commit"
          /\ \/ own.op = "trash" /\ StatusBecomes(own.id, "active")
             \/ StatusBecomes(own.id, "staged")
             \/ StatusBecomes(own.id, "restored")
             \/ rec' = rec
      BY <1>12, CommitIs
    <2>2. CASE rec' = rec
      BY <1>6, <2>2
    <2>3. ASSUME NEW status \in {"staged", "restored"}, StatusBecomes(own.id, status)
          PROVE  files'[Stash(i, k)] \in {"cut", "whole"}
      <3>1. i # own.id
        BY <1>3, <2>3 DEF StatusBecomes
      <3> QED BY <1>7, <2>3, <3>1
    <2>4. CASE own.op = "trash" /\ StatusBecomes(own.id, "active")
      <3>1. CASE i # own.id
        BY <1>7, <2>4, <3>1
      <3>2. CASE i = own.id
        <4>1. k \in own.kinds
          BY <1>1, <2>4, <3>2 DEF StatusBecomes, ControlInv, Recorded, RecordedAs
        <4>2. k \in ToSet(own.moved)
          BY <1>2, <2>1, <4>1, OrdersEmpty DEF InShape
        <4>3. Forward(own)
          BY <2>1, <2>4 DEF Forward, Removes
        <4>4. HasMoved(own, files)
          BY <1>2, <4>3 DEF RemovedSoFar
        <4> QED BY <2>1, <3>2, <4>2, <4>4 DEF HasMoved
      <3> QED BY <3>1, <3>2
    <2> QED BY <2>1, <2>2, <2>3, <2>4
  <1>13. CASE TrashOrDelete(h)
    <2>1. PICK op \in {"trash", "delete"}, kinds \in SUBSET Kinds, id \in Ids :
            rec[id] = NoRecord /\ rec' = [rec EXCEPT ![id] = Pending(op, kinds)]
      BY <1>13, TrashOrDeleteIs
    <2>2. i # id
      <3>1. Pending(op, kinds).status = "pending"
        BY DEF Pending
      <3>2. rec'[id] = Pending(op, kinds)
        BY <1>2, <2>1
      <3> QED BY <1>3, <3>1, <3>2
    <2> QED BY <1>1, <1>2, <1>5, <2>1, <2>2
  <1>14. CASE Restore(h)
    <2>1. PICK id \in Ids : /\ \A j \in Ids \ {id} : rec'[j] = rec[j]
                            /\ rec'[id].restoring
      BY <1>14, RestoreIs
    <2> QED BY <1>1, <1>3, <1>5, <2>1
  <1>15. CASE Rename(h)
    BY <1>6, <1>15, RenameIs DEF Quiet
  <1> QED BY <1>8, <1>9, <1>10, <1>11, <1>12, <1>13, <1>14, <1>15 DEF Step, Request

LEMMA ListedByTheRest ==
  ASSUME ControlInv, ListedTrashIsComplete, Publish \/ Crash
  PROVE  ListedTrashIsComplete'
  <1>1. rec \in [Ids -> RecordTypes \cup {NoRecord}]
    BY DEF ControlInv, LibraryTypes
  <1>2. rec' = rec
    BY CrashIs, PublishIs DEF Quiet
  <1>3. \A i \in Ids : Listed(rec[i]) => rec[i].kinds \subseteq Kinds
    BY <1>1 DEF Listed, RecordTypes, NoRecord
  <1>4. \A i \in Ids, k \in Kinds : files'[Stash(i, k)] = files[Stash(i, k)]
    BY StashLeft
  <1> QED BY <1>2, <1>3, <1>4 DEF ListedTrashIsComplete, Listed

-----------------------------------------------------------------------------
(* The two theorems about the trash.                                       *)

LEMMA HeldSame ==
  ASSUME NEW g \in Handlers, NEW k \in Kinds, UNCHANGED vars, Held(g, k)
  PROVE  Held(g, k)'
  BY DEF vars, Held

LEMMA StashStep ==
  ASSUME ControlInv, StashInv, ListedTrashIsComplete, [Next]_vars
  PROVE  StashInv' /\ ListedTrashIsComplete'
  <1>1. ApartFiles'
    BY ApartStep DEF StashInv
  <1>2. CASE UNCHANGED vars
    <2>1. \A h \in Handlers : Ends(h)' = Ends(h)
      BY <1>2 DEF vars, Ends
    <2>2. \A h \in Handlers : Written(h)' /\ Removed(h)'
      BY <1>2, <2>1 DEF vars, StashInv, Written, Removed
    <2>3. \A h \in Handlers, k \in Kinds : Held(h, k)'
      BY <1>2, HeldSame DEF StashInv
    <2>4. EveryFileHasRecord' /\ ListedTrashIsComplete'
      BY <1>2 DEF vars, StashInv, EveryFileHasRecord, ListedTrashIsComplete
    <2> QED BY <1>1, <2>2, <2>3, <2>4 DEF StashInv
  <1>3. ASSUME NEW h \in Handlers, Request(h) \/ Step(h) \/ Failure(h)
        PROVE  StashInv' /\ ListedTrashIsComplete'
    <2>1. \A g \in Handlers, k \in Kinds : Held(g, k)'
      <3>1. CASE Request(h)
        BY <3>1, HeldOfRequests
      <3>2. CASE Check(h) \/ Move(h) \/ Copied(h) \/ Unlink(h) \/ Failure(h)
        BY <3>2, HeldOfMoves
      <3>3. CASE Commit(h) \/ Mark(h) \/ Purge(h) \/ Complete(h)
        BY <3>3, HeldOfEnds
      <3> QED BY <1>3, <3>1, <3>2, <3>3 DEF Step
    <2>2. \A g \in Handlers : Written(g)'
      BY <1>3, WrittenByOwn, WrittenByOthers DEF StashInv
    <2>3. \A g \in Handlers : Removed(g)'
      BY <1>3, RemovedByOwn, RemovedByOthers
    <2>4. EveryFileHasRecord' /\ ListedTrashIsComplete'
      BY <1>3, FilesOfRequests, ListedByRequests
    <2> QED BY <1>1, <2>1, <2>2, <2>3, <2>4 DEF StashInv
  <1>4. CASE Publish \/ Crash
    <2>1. \A g \in Handlers, k \in Kinds : Held(g, k)'
      BY <1>4, HeldOfOthers
    <2>2. \A g \in Handlers : Written(g)' /\ Removed(g)'
      BY <1>4, WrittenByTheRest, RemovedByTheRest DEF StashInv
    <2>3. EveryFileHasRecord' /\ ListedTrashIsComplete'
      BY <1>4, FilesOfTheRest, ListedByTheRest DEF StashInv
    <2> QED BY <1>1, <2>1, <2>2, <2>3 DEF StashInv
  <1> QED BY <1>2, <1>3, <1>4 DEF Next, Action

LEMMA StashStart ==
  ASSUME Init
  PROVE  StashInv /\ ListedTrashIsComplete
  <1>1. \A i \in Ids, k \in Kinds : files[Stash(i, k)] = "none"
    <2> SUFFICES ASSUME NEW i \in Ids, NEW k \in Kinds PROVE files[Stash(i, k)] = "none"
      OBVIOUS
    <2>1. PICK path \in Paths :
            files = [p \in Places |-> IF p \in {Home("source", path), Home("output", path)}
                                      THEN "whole" ELSE "none"]
      BY DEF Init
    <2>2. Stash(i, k) \in Stashes /\ Stash(i, k) \in Places
      BY StashesAre
    <2>3. Home("source", path) \notin Stashes /\ Home("output", path) \notin Stashes
      BY HomesAre DEF Kinds
    <2> QED BY <2>1, <2>2, <2>3
  <1>2. \A i \in Ids : rec[i].op = "none" /\ rec[i].status = "none"
    BY DEF Init, NoRecord
  <1>3. \A h \in Handlers : handler[h].op = "none" /\ handler[h].pc = "idle"
    BY DEF Init, IdleHandler
  <1>4. ApartFiles
    <2>1. \A p \in Places : files[p] \in {"none", "whole"}
      BY DEF Init
    <2> QED BY <2>1 DEF ApartFiles
  <1>5. EveryFileHasRecord /\ ListedTrashIsComplete
    BY <1>1, <1>2 DEF EveryFileHasRecord, ListedTrashIsComplete
  <1>6. \A h \in Handlers : Written(h) /\ Removed(h)
    BY <1>3 DEF Written, Removed, Forward, Removes
  <1>7. \A h \in Handlers, k \in Kinds : Held(h, k)
    BY <1>3 DEF Held, Holds
  <1> QED BY <1>4, <1>5, <1>6, <1>7 DEF StashInv

LEMMA TrashInvIs == LibraryTypes /\ TrashInv <=> ControlInv /\ StashInv /\ ListedTrashIsComplete
  BY DEF TrashInv, ControlInv, StashInv, ApartFiles

\* Requests, records and the trash stay as TrashInv says, with any number of
\* requests at any of their steps, failures and restarts.
THEOREM TrashInvariant == Spec => [](LibraryTypes /\ TrashInv)
<1>1. Init => LibraryTypes /\ TrashInv
  BY ControlStart, StashStart, TrashInvIs
<1>2. LibraryTypes /\ TrashInv /\ [Next]_vars => (LibraryTypes /\ TrashInv)'
  <2> SUFFICES ASSUME LibraryTypes, TrashInv, [Next]_vars PROVE (LibraryTypes /\ TrashInv)'
    OBVIOUS
  <2>1. ControlInv /\ StashInv /\ ListedTrashIsComplete
    BY TrashInvIs
  <2>2. ControlInv' /\ StashInv' /\ ListedTrashIsComplete'
    BY <2>1, ControlStep, StashStep
  <2> QED BY <2>2 DEF TrashInv, ControlInv, StashInv, ApartFiles
<1> QED BY <1>1, <1>2, PTL DEF Spec

\* Whatever lies in the Worker's trash, of a trash record or of a permanent
\* deletion, belongs to a record that names it and is not closed: restart tooling
\* finds evidence of every operation, at whatever step the process ends.
THEOREM TrashIsRecorded == Spec => []EveryFileHasRecord
<1>1. TrashInv => EveryFileHasRecord
  BY DEF TrashInv
<1> QED BY <1>1, TrashInvariant, PTL

\* What the trash lists and nobody has tried to restore is there with every file.
THEOREM ListedIsComplete == Spec => []ListedTrashIsComplete
<1>1. TrashInv => ListedTrashIsComplete
  BY DEF TrashInv
<1> QED BY <1>1, TrashInvariant, PTL

-----------------------------------------------------------------------------
(* The third part of the invariant: no file is lost.                       *)

\* A step of a request that moves a file changes places of that kind only.
LEMMA OnlyItsKind ==
  ASSUME ControlInv, StashInv, NEW h \in Handlers, Step(h) \/ Request(h) \/ Failure(h),
         NEW place \in Places, files'[place] # files[place]
  PROVE  \/ Moving(handler[h]) /\ KindOf(place) = Head(handler[h].todo)
         \/ DeletionRecorded(KindOf(place))
  <1> DEFINE own == handler[h]
             src == Ends(h).src
             dst == Ends(h).dst
  <1>1. files \in [Places -> Contents]
    BY DEF ControlInv, LibraryTypes
  <1>2. files' # files
    OBVIOUS
  <1>3. CASE Move(h)
    <2>1. Moving(own)
      BY <1>3, MoveIs, MovingPcs
    <2>2. PICK r \in RequestTypes : MoveFails(h, r) \/ MoveAtOnce(h, r) \/ MoveCopies(h, r)
      BY <1>3, MoveIs
    <2>3. /\ src \in Places /\ dst \in Places
          /\ KindOf(src) = Head(own.todo) /\ KindOf(dst) = Head(own.todo)
      BY <2>1, EndsOfRequest
    <2>4. \/ files' = [files EXCEPT ![src] = "none", ![dst] = files[src]]
          \/ files' = [files EXCEPT ![dst] = "part"]
      BY <1>2, <2>2 DEF MoveFails, MoveAtOnce, MoveCopies, Quiet
    <2>5. place \in {src, dst}
      <3> HIDE DEF src, dst
      <3> QED BY <1>1, <2>3, <2>4
    <2> QED BY <2>1, <2>3, <2>5
  <1>4. CASE Copied(h)
    <2>1. /\ own.pc = "copying" /\ Moving(own)
          /\ files' = IF own.dst = Nowhere THEN files ELSE [files EXCEPT ![own.dst] = own.got]
      BY <1>4, CopiedIs, MovingPcs
    <2>2. own.dst # Nowhere /\ own.dst = place
      BY <1>1, <1>2, <2>1
    <2>3. KindOf(own.dst) = Head(own.todo)
      BY <2>1, <2>2 DEF StashInv, Written
    <2> QED BY <2>1, <2>2, <2>3
  <1>5. CASE Unlink(h)
    <2>1. Moving(own)
      BY <1>5, UnlinkIs, MovingPcs
    <2>2. PICK r \in RequestTypes : UnlinkFails(h, r) \/ UnlinkAtOnce(h, r)
      BY <1>5, UnlinkIs
    <2>3. src \in Places /\ KindOf(src) = Head(own.todo)
      BY <2>1, EndsOfRequest
    <2>4. files' = [files EXCEPT ![src] = "none"]
      BY <1>2, <2>2 DEF UnlinkFails, UnlinkAtOnce, Quiet
    <2>5. place = src
      BY <1>1, <2>3, <2>4
    <2> QED BY <2>1, <2>3, <2>5
  <1>6. CASE Purge(h)
    <2>1. /\ own.id \in Ids /\ rec[own.id].op = "delete" /\ rec[own.id].status = "staged"
          /\ rec[own.id].kinds = own.kinds /\ own.kinds \subseteq Kinds
          /\ \E gone \in SUBSET own.kinds :
               files' = [p \in Places |-> IF p \in {own.id} \X gone THEN "none" ELSE files[p]]
      BY <1>6, PurgeIs
    <2>2. place \in {own.id} \X own.kinds
      BY <2>1
    <2>3. place \in Stashes /\ place[2] \in own.kinds
      BY <2>1, <2>2 DEF Stashes
    <2>4. KindOf(place) \in own.kinds
      BY <2>3 DEF KindOf
    <2> QED BY <2>1, <2>4 DEF DeletionRecorded
  <1>7. CASE Check(h) \/ Failure(h)
    BY <1>2, <1>7, CheckIs, FailureIs DEF Quiet
  <1>8. CASE Request(h)
    BY <1>2, <1>8 DEF Request, TrashOrDelete, Restore, Rename
  <1>9. CASE Commit(h) \/ Mark(h) \/ Complete(h)
    BY <1>2, <1>9 DEF Commit, Mark, Complete
  <1> QED BY <1>3, <1>4, <1>5, <1>6, <1>7, <1>8, <1>9 DEF Step

\* A permanent deletion stays on record.
Deleted == {"staged", "completed", "completed_with_residue"}
LEMMA DeletionStays ==
  ASSUME ControlInv, Action, NEW k \in Kinds, DeletionRecorded(k)
  PROVE  DeletionRecorded(k)'
  <1>1. PICK i \in Ids : /\ rec[i].op = "delete" /\ k \in rec[i].kinds
                         /\ rec[i].status \in Deleted
    BY DEF DeletionRecorded, Deleted
  <1>2. SUFFICES rec'[i].op = "delete" /\ k \in rec'[i].kinds /\ rec'[i].status \in Deleted
    BY DEF DeletionRecorded, Deleted
  <1>3. CASE rec' = rec
    BY <1>1, <1>3
  <1>4. CASE Publish \/ Crash
    BY <1>3, <1>4, PublishIs, CrashIs DEF Quiet
  <1>5. ASSUME NEW h \in Handlers, Request(h) \/ Step(h) \/ Failure(h)
        PROVE  rec'[i].op = "delete" /\ k \in rec'[i].kinds /\ rec'[i].status \in Deleted
    <2> DEFINE own == handler[h]
    <2>1. ASSUME NEW status, StatusBecomes(own.id, status),
                 i = own.id => status \in Deleted \cup {rec[i].status}
          PROVE  rec'[i].op = "delete" /\ k \in rec'[i].kinds /\ rec'[i].status \in Deleted
      BY <1>1, <2>1 DEF StatusBecomes
    <2>2. CASE Check(h) \/ Failure(h)
      BY <1>3, <2>2, CheckIs, FailureIs DEF Quiet
    <2>3. CASE Move(h) \/ Copied(h) \/ Unlink(h) \/ Purge(h)
      BY <1>3, <2>3, MoveIs, CopiedIs, UnlinkIs, PurgeIs DEF FilesOnly
    <2>4. own.op \in {"trash", "delete", "restore"} => RecordedAs(own, rec[own.id])
      BY DEF ControlInv, Recorded
    <2>5. CASE Mark(h)
      <3>1. \/ Removes(own) /\ StatusBecomes(own.id, "failed") /\ own.pc = "mark"
            \/ StatusBecomes(own.id, rec[own.id].status)
        BY <2>5, MarkIs
      <3>2. CASE Removes(own) /\ StatusBecomes(own.id, "failed") /\ own.pc = "mark"
        <4>1. rec[own.id].status = "pending"
          BY <2>4, <3>2 DEF RecordedAs, Removes
        <4>2. i # own.id
          BY <1>1, <4>1 DEF Deleted
        <4> QED BY <2>1, <3>2, <4>2
      <3> QED BY <2>1, <3>1, <3>2
    <2>6. CASE Complete(h)
      <3>1. \E status \in Deleted : StatusBecomes(own.id, status)
        BY <2>6, CompleteIs DEF Closings, Deleted
      <3> QED BY <2>1, <3>1
    <2>7. CASE Commit(h)
      <3>1. /\ own.pc = "commit"
            /\ \/ own.op = "trash" /\ StatusBecomes(own.id, "active")
               \/ own.op = "delete" /\ StatusBecomes(own.id, "staged")
               \/ own.op = "restore" /\ StatusBecomes(own.id, "restored")
               \/ rec' = rec
        BY <2>7, CommitIs
      <3>2. own.op = "restore" => rec[own.id].status \in {"active", "restored"}
        BY <2>4 DEF RecordedAs
      <3>3. own.op = "trash" => rec[own.id].status = "pending"
        BY <2>4, <3>1 DEF RecordedAs, Removes
      <3>4. CASE own.op = "restore" /\ StatusBecomes(own.id, "restored")
        BY <1>1, <2>1, <3>2, <3>4 DEF Deleted
      <3>5. CASE own.op = "trash" /\ StatusBecomes(own.id, "active")
        BY <1>1, <2>1, <3>3, <3>5 DEF Deleted
      <3> QED BY <1>3, <2>1, <3>1, <3>4, <3>5 DEF Deleted
    <2>8. CASE TrashOrDelete(h)
      <3>1. PICK op \in {"trash", "delete"}, kinds \in SUBSET Kinds, id \in Ids :
              rec[id] = NoRecord /\ rec' = [rec EXCEPT ![id] = Pending(op, kinds)]
        BY <2>8, TrashOrDeleteIs
      <3>2. i # id
        BY <1>1, <3>1 DEF NoRecord, Deleted
      <3> QED BY <1>1, <3>1, <3>2 DEF ControlInv, LibraryTypes
    <2>9. CASE Restore(h)
      <3>1. PICK id \in Ids : /\ \A j \in Ids \ {id} : rec'[j] = rec[j]
                              /\ rec'[id].op = rec[id].op /\ rec'[id].kinds = rec[id].kinds
                              /\ rec'[id].status = rec[id].status
        BY <2>9, RestoreIs
      <3> QED BY <1>1, <3>1
    <2>10. CASE Rename(h)
      BY <1>3, <2>10, RenameIs DEF Quiet
    <2> QED BY <1>5, <2>2, <2>3, <2>5, <2>6, <2>7, <2>8, <2>9, <2>10 DEF Step, Request
  <1> QED BY <1>4, <1>5 DEF Action

\* Where no two requests meet, the others move other kinds of file than one that
\* puts its file back.
LEMMA NotMeeting ==
  ASSUME ControlInv, ~Meeting, NEW g \in Handlers, NEW h \in Handlers, g # h,
         PutsBack(handler[g]) \/ RenamesOnto(handler[g], handler[h]),
         Moving(handler[g]), Moving(handler[h])
  PROVE  Head(handler[g].todo) # Head(handler[h].todo)
  <1>1. ASSUME NEW e \in Handlers, Moving(handler[e])
        PROVE  1 \in DOMAIN handler[e].todo /\ Head(handler[e].todo) = handler[e].todo[1]
    <2>1. handler[e].todo \in Orders /\ handler[e].todo # <<>>
      BY <1>1 DEF ControlInv, LibraryTypes, RequestTypes, InShape
    <2>2. handler[e].todo \in {<<"source">>, <<"output">>, <<"source", "output">>, <<"output", "source">>}
      BY <2>1 DEF Orders
    <2>3. PICK s \in {<<"source">>, <<"output">>, <<"source", "output">>, <<"output", "source">>} :
            s = handler[e].todo
      BY <2>2
    <2>4. 1 \in DOMAIN s /\ Head(s) = s[1]
      OBVIOUS
    <2> QED BY <2>3, <2>4
  <1> QED BY <1>1 DEF Meeting

LEMMA KindUnchanged ==
  ASSUME ControlInv, StashInv, NEW h \in Handlers, Step(h) \/ Request(h) \/ Failure(h),
         NEW k, ~DeletionRecorded(k), ~ (Moving(handler[h]) /\ Head(handler[h].todo) = k)
  PROVE  \A place \in Places : KindOf(place) = k => files'[place] = files[place]
  BY OnlyItsKind

\* A rename that has found its destination free.
FreeAhead(h) ==
  handler[h].op = "rename" /\ handler[h].pc = "move" => files[Ends(h).dst] = "none"

LEMMA RenamePlaces ==
  ASSUME ControlInv, NEW g \in Handlers, handler[g].op = "rename", Moving(handler[g])
  PROVE  /\ Ends(g).dst = Home("source", handler[g].to) /\ handler[g].to \in Paths
         /\ Ends(g).src = Home("source", handler[g].row.path)
         /\ Ends(g).dst \in Places /\ Ends(g).dst \notin Stashes /\ KindOf(Ends(g).dst) = "source"
         /\ Ends(g).src \in Places /\ KindOf(Ends(g).src) = "source"
         /\ Head(handler[g].todo) = "source"
  <1>1. /\ Ends(g).dst = Home("source", handler[g].to) /\ handler[g].to \in Paths
        /\ Ends(g).src = Home("source", handler[g].row.path) /\ Ends(g).src \in Places
        /\ KindOf(Ends(g).src) = Head(handler[g].todo)
        /\ Ends(g).dst \in Places /\ Head(handler[g].todo) = "source"
    BY EndsOfRequest
  <1>2. "source" \in Kinds
    BY DEF Kinds
  <1> QED BY <1>1, <1>2, HomesAre

LEMMA HomesDiffer ==
  ASSUME NEW p, NEW q, Home("source", p) = Home("source", q)
  PROVE  p = q
  BY DEF Home

\* A rename's own step finds its destination free, or is not at its move.
LEMMA FreeByOwn ==
  ASSUME ControlInv, NEW h \in Handlers, Step(h) \/ Request(h) \/ Failure(h)
  PROVE  FreeAhead(h)'
  <1> DEFINE own == handler[h]
  <1>1. SUFFICES ASSUME handler'[h].op = "rename", handler'[h].pc = "move"
                 PROVE  files'[Ends(h)'.dst] = "none"
    BY DEF FreeAhead
  <1>2. own \in RequestTypes /\ InShape(own)
    BY DEF ControlInv, LibraryTypes
  <1>3. ASSUME NEW r, handler'[h] = r, r = IdleHandler \/ Fails(own, r) PROVE FALSE
    BY <1>1, <1>3 DEF Fails, IdleHandler
  <1>4. ASSUME NEW r, handler'[h] = r, Advances(own, r) PROVE FALSE
    BY <1>1, <1>4 DEF Advances, Forward, Removes
  <1>5. CASE Check(h)
    <2>1. Quiet /\ own.pc = "check" /\ Moving(own)
      BY <1>5, CheckIs, MovingPcs
    <2>2. PICK r \in RequestTypes :
            /\ Turns(h, r)
            /\ \/ Fails(own, r)
               \/ Goes(own, r, "move") /\ ~Regular(Ends(h).dst)
      BY <1>5, CheckIs
    <2>3. handler'[h] = r /\ Goes(own, r, "move") /\ ~Regular(Ends(h).dst)
      BY <1>3, <2>2 DEF Turns
    <2>4. EndsOf(r, rec) = EndsOf(own, rec)
      BY <2>3, EndsOfSame DEF Goes
    <2>5. Ends(h)' = Ends(h)
      BY <2>1, <2>3, <2>4 DEF Ends, Quiet
    <2> QED BY <2>1, <2>3, <2>5 DEF Quiet, Regular
  <1>6. CASE Failure(h)
    <2>1. \E r \in RequestTypes : Turns(h, r) /\ (Fails(own, r) \/ r = IdleHandler)
      BY <1>6, FailureIs
    <2> QED BY <1>3, <2>1 DEF Turns
  <1>7. CASE Move(h)
    <2>1. PICK r \in RequestTypes : Turns(h, r) /\ (MoveFails(h, r) \/ MoveAtOnce(h, r) \/ MoveCopies(h, r))
      BY <1>7, MoveIs
    <2>2. handler'[h] = r
      BY <2>1 DEF Turns
    <2>3. ~MoveFails(h, r) /\ ~MoveAtOnce(h, r)
      BY <1>3, <1>4, <2>2 DEF MoveFails, MoveAtOnce
    <2>4. Goes(own, r, "copying")
      BY <2>1, <2>3 DEF MoveCopies
    <2> QED BY <1>1, <2>2, <2>4 DEF Goes
  <1>8. CASE Copied(h)
    <2>1. PICK r \in RequestTypes : Turns(h, r) /\ (Fails(own, r) \/ Goes(own, r, "unlink"))
      BY <1>8, CopiedIs
    <2>2. handler'[h] = r /\ Goes(own, r, "unlink")
      BY <1>3, <2>1 DEF Turns
    <2> QED BY <1>1, <2>2 DEF Goes
  <1>9. CASE Unlink(h)
    <2>1. PICK r \in RequestTypes : Turns(h, r) /\ (UnlinkFails(h, r) \/ UnlinkAtOnce(h, r))
      BY <1>9, UnlinkIs
    <2> QED BY <1>3, <1>4, <2>1 DEF Turns, UnlinkFails, UnlinkAtOnce
  <1>10. CASE Commit(h)
    <2>1. PICK r \in RequestTypes : Turns(h, r) /\ (r = IdleHandler \/ Goes(own, r, "purge"))
      BY <1>10, CommitIs
    <2>2. handler'[h] = r /\ Goes(own, r, "purge")
      BY <1>3, <2>1 DEF Turns
    <2> QED BY <1>1, <2>2 DEF Goes
  <1>11. CASE Mark(h) \/ Complete(h)
    BY <1>3, <1>11, MarkIs, CompleteIs DEF Turns
  <1>12. CASE Purge(h)
    <2>1. \E r \in RequestTypes : Turns(h, r) /\ Goes(own, r, "complete")
      BY <1>12, PurgeIs
    <2> QED BY <1>1, <2>1 DEF Turns, Goes
  <1>13. CASE TrashOrDelete(h)
    <2>1. \E op \in {"trash", "delete"}, kinds \in SUBSET Kinds, id \in Ids, r \in RequestTypes :
            Turns(h, r) /\ Starts(h, r, op, id, kinds, "none")
      BY <1>13, TrashOrDeleteIs
    <2> QED BY <1>1, <2>1 DEF Turns, Starts
  <1>14. CASE Restore(h)
    <2>1. \E id \in Ids, r \in RequestTypes : Turns(h, r) /\ Starts(h, r, "restore", id, rec[id].kinds, "none")
      BY <1>14, RestoreIs
    <2> QED BY <1>1, <2>1 DEF Turns, Starts
  <1>15. CASE Rename(h)
    <2>1. \E to \in Paths, r \in RequestTypes : Turns(h, r) /\ Starts(h, r, "rename", Nowhere, {"source"}, to)
      BY <1>15, RenameIs
    <2> QED BY <1>1, <2>1 DEF Turns, Starts
  <1> QED BY <1>5, <1>6, <1>7, <1>8, <1>9, <1>10, <1>11, <1>12, <1>13, <1>14, <1>15 DEF Step, Request

\* What a step does to files, and to those that others are writing.
AtOnce(h) ==
  /\ handler[h].pc = "move" /\ Regular(Ends(h).src)
  /\ files' = [files EXCEPT ![Ends(h).src] = "none", ![Ends(h).dst] = files[Ends(h).src]]
  /\ \A g \in Handlers \ {h} : handler'[g].dst = FollowDst(handler[g], Ends(h).src, Ends(h).dst)

Opens(h) ==
  /\ handler[h].pc = "move" /\ Regular(Ends(h).src) /\ handler[h].op # "rename"
  /\ files' = [files EXCEPT ![Ends(h).dst] = "part"]
  /\ SameDsts(h)

Writes(h) ==
  /\ handler[h].pc = "copying" /\ handler[h].dst # Nowhere
  /\ files' = [files EXCEPT ![handler[h].dst] = handler[h].got]
  /\ SameDsts(h)

Drops(h) ==
  /\ handler[h].pc = "unlink" /\ Regular(Ends(h).src)
  /\ files' = [files EXCEPT ![Ends(h).src] = "none"]
  /\ \A g \in Handlers \ {h} : handler'[g].dst = FollowDst(handler[g], Ends(h).src, Nowhere)

Leaves(h) == files' = files /\ SameDsts(h)

LEMMA FilesStep ==
  ASSUME ControlInv, NEW h \in Handlers, Step(h) \/ Request(h) \/ Failure(h)
  PROVE  AtOnce(h) \/ Opens(h) \/ Writes(h) \/ Drops(h) \/ Leaves(h) \/ Purge(h)
  <1>1. CASE Move(h)
    <2>1. PICK r \in RequestTypes : MoveFails(h, r) \/ MoveAtOnce(h, r) \/ MoveCopies(h, r)
      BY <1>1, MoveIs
    <2>2. handler[h].pc = "move"
      BY <1>1, MoveIs
    <2>3. CASE MoveFails(h, r)
      BY <2>3 DEF MoveFails, Quiet, Leaves
    <2>4. CASE MoveAtOnce(h, r)
      BY <2>2, <2>4 DEF MoveAtOnce, AtOnce
    <2>5. CASE MoveCopies(h, r)
      BY <2>2, <2>5 DEF MoveCopies, Opens
    <2> QED BY <2>1, <2>3, <2>4, <2>5
  <1>2. CASE Copied(h)
    BY <1>2, CopiedIs DEF Writes, Leaves
  <1>3. CASE Unlink(h)
    <2>1. PICK r \in RequestTypes : UnlinkFails(h, r) \/ UnlinkAtOnce(h, r)
      BY <1>3, UnlinkIs
    <2>2. handler[h].pc = "unlink"
      BY <1>3, UnlinkIs
    <2>3. CASE UnlinkFails(h, r)
      BY <2>3 DEF UnlinkFails, Quiet, Leaves
    <2>4. CASE UnlinkAtOnce(h, r)
      BY <2>2, <2>4 DEF UnlinkAtOnce, Drops
    <2> QED BY <2>1, <2>3, <2>4
  <1>4. CASE Check(h) \/ Failure(h) \/ Rename(h)
    BY <1>4, CheckIs, FailureIs, RenameIs DEF Quiet, Leaves
  <1>5. CASE Commit(h) \/ Mark(h) \/ Complete(h) \/ TrashOrDelete(h) \/ Restore(h)
    BY <1>5, CommitIs, MarkIs, CompleteIs, TrashOrDeleteIs, RestoreIs DEF Leaves
  <1> QED BY <1>1, <1>2, <1>3, <1>4, <1>5 DEF Step, Request

\* A request that moves a file takes it from its home, or puts it back, or renames it.
LEMMA MovingWays ==
  ASSUME ControlInv, NEW h \in Handlers, Moving(handler[h])
  PROVE  /\ Forward(handler[h]) \/ PutsBack(handler[h]) \/ handler[h].op = "rename"
         /\ ~PutsBack(handler[h]) => Stashing(handler[h])
         /\ handler[h].op = "rename" => handler[h].pc \in {"check", "move"}
         /\ handler[h].op # "rename" => Ends(h).src # Ends(h).dst
  <1> DEFINE own == handler[h]
  <1>1. own \in RequestTypes /\ InShape(own)
    BY DEF ControlInv, LibraryTypes
  <1>2. own.op \in Ops /\ own.undo \in BOOLEAN
    BY <1>1 DEF InShape, Moving, RequestTypes
  <1>3. Forward(own) \/ PutsBack(own) \/ own.op = "rename"
    BY <1>2 DEF Forward, PutsBack, Removes, Ops
  <1>4. ~PutsBack(own) => Stashing(own)
    BY <1>2 DEF PutsBack, Stashing
  <1>5. own.op = "rename" => own.pc \in {"check", "move"}
    BY <1>1 DEF InShape, Moving
  <1>6. own.op # "rename" => Ends(h).src # Ends(h).dst
    <2>1. SUFFICES ASSUME own.op # "rename" PROVE Ends(h).src # Ends(h).dst
      OBVIOUS
    <2>2. Head(own.todo) \in Kinds
      BY EndsOfRequest
    <2>3. PICK p \in Paths :
            \/ Ends(h).src = Home(Head(own.todo), p) /\ Ends(h).dst = Stash(own.id, Head(own.todo)) /\ own.id \in Ids
            \/ Ends(h).dst = Home(Head(own.todo), p) /\ Ends(h).src = Stash(own.id, Head(own.todo)) /\ own.id \in Ids
      BY <2>1, EndsOfRequest
    <2>4. Home(Head(own.todo), p) \notin Stashes
      BY <2>2, HomesAre
    <2> QED BY <2>2, <2>3, <2>4, StashesAre
  <1> QED BY <1>3, <1>4, <1>5, <1>6

\* No other request puts a file where a rename has found none.
LEMMA FreeByOthers ==
  ASSUME ControlInv, StashInv, ~Meeting, NEW h \in Handlers, Step(h) \/ Request(h) \/ Failure(h),
         NEW g \in Handlers \ {h}, FreeAhead(g)
  PROVE  FreeAhead(g)'
  <1> DEFINE own == handler[h]
  <1>1. SUFFICES ASSUME handler'[g].op = "rename", handler'[g].pc = "move"
                 PROVE  files'[Ends(g)'.dst] = "none"
    BY DEF FreeAhead
  <1>2. Alike(handler[g], handler'[g]) /\ Ends(g)' = Ends(g)
    BY OthersAlike, EndsSame
  <1>3. handler[g].op = "rename" /\ handler[g].pc = "move" /\ Moving(handler[g])
    BY <1>1, <1>2, MovingPcs DEF Alike
  <1>4. PICK d \in Places : d = Ends(g).dst
    BY <1>3, RenamePlaces
  <1>5. /\ files[d] = "none" /\ d = Home("source", handler[g].to) /\ d \notin Stashes
        /\ KindOf(d) = "source" /\ Head(handler[g].todo) = "source"
    BY <1>3, <1>4, RenamePlaces DEF FreeAhead
  <1>6. files \in [Places -> Contents]
    BY DEF ControlInv, LibraryTypes
  <1>7. ASSUME own.pc = "move" PROVE Ends(h).dst # d
    <2>1. SUFFICES ASSUME Ends(h).dst = d PROVE FALSE
      OBVIOUS
    <2>2. Moving(own)
      BY <1>7, MovingPcs
    <2>3. Head(own.todo) = "source"
      BY <1>5, <2>1, <2>2, EndsOfRequest
    <2>4. ~PutsBack(own)
      BY <1>3, <1>5, <2>2, <2>3, NotMeeting
    <2>5. CASE own.op = "rename"
      <3>1. Ends(h).dst = Home("source", own.to)
        BY <2>2, <2>5, RenamePlaces
      <3>2. own.to = handler[g].to
        BY <1>5, <2>1, <3>1, HomesDiffer
      <3>3. RenamesOnto(handler[g], own)
        BY <1>3, <1>7, <2>5, <3>2 DEF RenamesOnto
      <3> QED BY <1>3, <1>5, <2>2, <2>3, <3>3, NotMeeting
    <2>6. CASE own.op # "rename"
      <3>1. Stashing(own)
        BY <2>2, <2>4, MovingWays
      <3>2. Ends(h).dst = Stash(own.id, "source") /\ own.id \in Ids
        BY <2>2, <2>3, <2>6, <3>1, EndsOfRequest
      <3> QED BY <1>5, <2>1, <3>2, StashesAre DEF Kinds
    <2> QED BY <2>5, <2>6
  <1>8. files'[d] = "none"
    <2>1. CASE AtOnce(h) \/ Opens(h)
      <3>1. own.pc = "move" /\ Moving(own)
        BY <2>1, MovingPcs DEF AtOnce, Opens
      <3>2. Ends(h).dst # d /\ Ends(h).dst \in Places
        BY <1>7, <3>1, EndsOfRequest
      <3> QED BY <1>5, <1>6, <2>1, <3>2 DEF AtOnce, Opens
    <2>2. CASE Writes(h)
      <3>1. own.dst # d
        BY <1>5, <2>2 DEF Writes, StashInv, Written
      <3> QED BY <1>5, <1>6, <2>2, <3>1 DEF Writes
    <2>3. CASE Drops(h) \/ Leaves(h)
      BY <1>5, <1>6, <2>3 DEF Drops, Leaves
    <2>4. CASE Purge(h)
      BY <1>5, <2>4, PurgeIs
    <2> QED BY <2>1, <2>2, <2>3, <2>4, FilesStep
  <1> QED BY <1>2, <1>4, <1>8

\* A request that is about to move a file leaves a whole one elsewhere.
LEMMA WholeElsewhere ==
  ASSUME ControlInv, StashInv, NEW h \in Handlers, handler[h].pc = "move", FreeAhead(h), Safe(h),
         NEW k, k = Head(handler[h].todo), WholeAt(k, {})
  PROVE  WholeAt(k, {Ends(h).dst})
  <1> DEFINE own == handler[h]
  <1>1. Moving(own)
    BY MovingPcs
  <1>2. PICK place \in Places : files[place] = "whole" /\ KindOf(place) = k
    BY DEF WholeAt
  <1>3. CASE Forward(own)
    <2>1. /\ Ends(h).dst = Stash(own.id, Head(own.todo)) /\ k \in ToSet(own.todo)
      BY <1>1, <1>3, ForwardPlaces, EndsOfRequest
    <2>2. files[Ends(h).dst] = "none"
      BY <1>3, <2>1 DEF StashInv, Removed
    <2> QED BY <1>2, <2>2 DEF WholeAt
  <1>4. CASE PutsBack(own)
    BY <1>4 DEF Safe
  <1>5. CASE own.op = "rename"
    BY <1>2, <1>5 DEF FreeAhead, WholeAt
  <1> QED BY <1>1, <1>3, <1>4, <1>5, MovingWays

\* Of a kind whose deletion is not on record there stays a whole file.
LEMMA WholeKept ==
  ASSUME ControlInv, StashInv, NEW h \in Handlers, Step(h) \/ Request(h) \/ Failure(h), FreeAhead(h),
         NEW k \in Kinds, ~DeletionRecorded(k), WholeAt(k, {}),
         Moving(handler[h]) /\ Head(handler[h].todo) = k => Safe(h)
  PROVE  WholeAt(k, {})'
  <1> DEFINE own == handler[h]
  <1>1. PICK whole \in Places : files[whole] = "whole" /\ KindOf(whole) = k
    BY DEF WholeAt
  <1>2. files \in [Places -> Contents]
    BY DEF ControlInv, LibraryTypes
  <1>3. ASSUME NEW place \in Places, KindOf(place) = k, files'[place] = "whole"
        PROVE  WholeAt(k, {})'
    BY <1>3 DEF WholeAt
  <1>4. CASE ~ (Moving(own) /\ Head(own.todo) = k)
    <2>1. files'[whole] = "whole"
      BY <1>1, <1>4, KindUnchanged
    <2> QED BY <1>1, <1>3, <2>1
  <1>5. CASE Moving(own) /\ Head(own.todo) = k
    <2>1. PICK src \in Places, dst \in Places : /\ src = Ends(h).src /\ dst = Ends(h).dst
                                                /\ KindOf(src) = k /\ KindOf(dst) = k
      BY <1>5, EndsOfRequest
    <2>2. Safe(h)
      BY <1>5
    <2>3. CASE AtOnce(h) \/ Opens(h)
      <3>1. own.pc = "move"
        BY <2>3 DEF AtOnce, Opens
      <3>2. WholeAt(k, {dst})
        BY <1>5, <2>1, <2>2, <3>1, WholeElsewhere
      <3>3. PICK place \in Places : files[place] = "whole" /\ KindOf(place) = k /\ place # dst
        BY <3>2 DEF WholeAt
      <3>4. CASE AtOnce(h)
        <4>1. files' = [files EXCEPT ![src] = "none", ![dst] = files[src]]
          BY <2>1, <3>4 DEF AtOnce
        <4>2. CASE place = src
          BY <1>2, <1>3, <2>1, <3>3, <4>1, <4>2
        <4>3. CASE place # src
          BY <1>2, <1>3, <3>3, <4>1, <4>3
        <4> QED BY <4>2, <4>3
      <3>5. CASE Opens(h)
        <4>1. files' = [files EXCEPT ![dst] = "part"]
          BY <2>1, <3>5 DEF Opens
        <4> QED BY <1>2, <1>3, <3>3, <4>1
      <3> QED BY <2>3, <3>4, <3>5
    <2>4. CASE Writes(h)
      <3>1. /\ own.pc = "copying" /\ own.dst # Nowhere
            /\ files' = [files EXCEPT ![own.dst] = own.got]
        BY <2>4 DEF Writes
      <3>2. PICK at \in Places : at = own.dst
        BY <3>1 DEF ControlInv, LibraryTypes, RequestTypes
      <3>3. CASE Forward(own)
        <4>1. files[at] = "part"
          BY <1>5, <3>1, <3>2, <3>3, ForwardPlaces DEF StashInv, Removed
        <4> QED BY <1>1, <1>2, <1>3, <3>1, <3>2, <4>1
      <3>4. CASE PutsBack(own)
        <4>1. (at = dst /\ own.got = "whole") \/ WholeAt(k, {src, at})
          BY <1>5, <2>1, <2>2, <3>1, <3>2, <3>4 DEF Safe
        <4>2. CASE at = dst /\ own.got = "whole"
          BY <1>2, <1>3, <2>1, <3>1, <3>2, <4>2
        <4>3. CASE WholeAt(k, {src, at})
          <5>1. PICK place \in Places : files[place] = "whole" /\ KindOf(place) = k /\ place # at
            BY <4>3 DEF WholeAt
          <5> QED BY <1>2, <1>3, <3>1, <3>2, <5>1
        <4> QED BY <4>1, <4>2, <4>3
      <3> QED BY <1>5, <3>1, <3>3, <3>4, MovingWays
    <2>5. CASE Drops(h)
      <3>1. own.pc = "unlink" /\ files' = [files EXCEPT ![src] = "none"]
        BY <2>1, <2>5 DEF Drops
      <3>2. CASE Forward(own)
        <4>1. files[src] # "whole" \/ WholeInTrash(k)
          BY <1>5, <2>1, <2>2, <3>1, <3>2 DEF Safe
        <4>2. CASE files[src] # "whole"
          BY <1>1, <1>2, <1>3, <3>1, <4>2
        <4>3. CASE WholeInTrash(k)
          <5>1. PICK i \in Ids : files[Stash(i, k)] = "whole"
            BY <4>3 DEF WholeInTrash
          <5>2. src \notin Stashes
            BY <1>5, <2>1, <3>2, ForwardPlaces
          <5> QED BY <1>2, <1>3, <3>1, <5>1, <5>2, StashesAre
        <4> QED BY <4>1, <4>2, <4>3
      <3>3. CASE PutsBack(own)
        <4>1. WholeAt(k, {src})
          BY <1>5, <2>1, <2>2, <3>1, <3>3 DEF Safe
        <4>2. PICK place \in Places : files[place] = "whole" /\ KindOf(place) = k /\ place # src
          BY <4>1 DEF WholeAt
        <4> QED BY <1>2, <1>3, <3>1, <4>2
      <3> QED BY <1>5, <3>1, <3>2, <3>3, MovingWays
    <2>6. CASE Leaves(h)
      BY <1>1, <1>3, <2>6 DEF Leaves
    <2>7. ~Purge(h)
      BY <1>5, PurgeIs DEF ControlInv, InShape
    <2> QED BY <2>3, <2>4, <2>5, <2>6, <2>7, FilesStep
  <1> QED BY <1>4, <1>5

\* A file that is written away from where a step takes place keeps its place.
LEMMA DstElsewhere ==
  ASSUME ControlInv, StashInv, NEW h \in Handlers, Step(h) \/ Request(h) \/ Failure(h),
         NEW g \in Handlers \ {h}, handler[g].pc = "copying",
         handler[g].dst = Nowhere \/ ~ (Moving(handler[h]) /\ Head(handler[h].todo) = Head(handler[g].todo))
  PROVE  handler'[g].dst = handler[g].dst
  <1>1. CASE AtOnce(h) \/ Drops(h)
    <2>1. handler[h].pc \in {"move", "unlink"} /\ Moving(handler[h])
      BY <1>1, MovingPcs DEF AtOnce, Drops
    <2>2. PICK src \in Places, dst \in Places :
            /\ src = Ends(h).src /\ dst = Ends(h).dst
            /\ KindOf(src) = Head(handler[h].todo) /\ KindOf(dst) = Head(handler[h].todo)
      BY <2>1, EndsOfRequest
    <2>3. Nowhere \notin Places
      BY LibraryAssumption
    <2>4. handler[g].dst = Nowhere \/ KindOf(handler[g].dst) = Head(handler[g].todo)
      BY DEF StashInv, Written
    <2>5. handler[g].dst \notin {src, dst}
      BY <2>1, <2>2, <2>3, <2>4
    <2>6. \/ handler'[g].dst = FollowDst(handler[g], src, dst)
          \/ handler'[g].dst = FollowDst(handler[g], src, Nowhere)
      BY <1>1, <2>2 DEF AtOnce, Drops
    <2> QED BY <2>5, <2>6 DEF FollowDst
  <1>2. CASE Opens(h) \/ Writes(h) \/ Leaves(h)
    BY <1>2 DEF Opens, Writes, Leaves, SameDsts
  <1>3. CASE Purge(h)
    BY <1>3, PurgeIs DEF SameDsts
  <1> QED BY <1>1, <1>2, <1>3, FilesStep

\* The whole file that a removal relies on, and the one that is put back, are not
\* lost by a request that leaves files of that kind alone.
LEMMA SafeElsewhere ==
  ASSUME ControlInv, StashInv, NEW h \in Handlers, Step(h) \/ Request(h) \/ Failure(h),
         NEW g \in Handlers \ {h}, Moving(handler[g]), Safe(g),
         NEW k, k = Head(handler[g].todo), ~DeletionRecorded(k),
         ~ (Moving(handler[h]) /\ Head(handler[h].todo) = k)
  PROVE  Safe(g)'
  <1>1. Alike(handler[g], handler'[g]) /\ Ends(g)' = Ends(g)
    BY OthersAlike, EndsSame
  <1>2. handler'[g].dst = handler[g].dst
    BY <1>1, DstElsewhere DEF Alike
  <1>3. \A place \in Places : KindOf(place) = k => files'[place] = files[place]
    BY KindUnchanged
  <1>4. k \in Kinds /\ Ends(g).src \in Places /\ KindOf(Ends(g).src) = k
    BY EndsOfRequest
  <1>5. \A places : WholeAt(k, places) => WholeAt(k, places)'
    BY <1>3 DEF WholeAt
  <1>6. WholeInTrash(k) => WholeInTrash(k)'
    BY <1>3, <1>4, StashesAre DEF WholeInTrash
  <1>7. files'[Ends(g).src] = files[Ends(g).src]
    BY <1>3, <1>4
  <1>8. /\ handler'[g].pc = handler[g].pc /\ handler'[g].got = handler[g].got
        /\ Head(handler'[g].todo) = k
        /\ Forward(handler'[g]) <=> Forward(handler[g])
        /\ PutsBack(handler'[g]) <=> PutsBack(handler[g])
    BY <1>1 DEF Alike, Forward, Removes, PutsBack
  <1>9. PICK src, dst : src = Ends(g).src /\ dst = Ends(g).dst /\ src = Ends(g)'.src /\ dst = Ends(g)'.dst
    BY <1>1
  <1>10. PICK at : at = handler[g].dst /\ at = handler'[g].dst
    BY <1>2
  <1> HIDE DEF WholeAt, WholeInTrash, Ends
  <1> QED BY <1>5, <1>6, <1>7, <1>8, <1>9, <1>10 DEF Safe

\* A removal or a rename leaves the whole files in the trash, and puts none where
\* another removal takes its own from.
LEMMA TrashKeptByMoves ==
  ASSUME ControlInv, StashInv, NEW h \in Handlers, Step(h) \/ Request(h) \/ Failure(h),
         Moving(handler[h]), ~PutsBack(handler[h]),
         NEW place \in Places, place \in Stashes, files[place] = "whole"
  PROVE  files'[place] = "whole"
  <1> DEFINE own == handler[h]
  <1>1. files \in [Places -> Contents]
    BY DEF ControlInv, LibraryTypes
  <1>2. CASE own.op = "rename"
    <2>1. own.pc \in {"check", "move"}
      BY <1>2, MovingWays
    <2>2. Ends(h).src \notin Stashes /\ Ends(h).dst \notin Stashes
      <3>1. PICK p \in Paths : Ends(h).src = Home("source", p)
        BY <1>2, EndsOfRequest
      <3>2. Home("source", p) \notin Stashes
        BY HomesAre DEF Kinds
      <3> QED BY <1>2, <3>1, <3>2, RenamePlaces
    <2>3. CASE AtOnce(h) \/ Opens(h)
      BY <1>1, <2>2, <2>3 DEF AtOnce, Opens
    <2> QED BY <2>1, <2>3, FilesStep, PurgeIs DEF Writes, Drops, Leaves
  <1>3. CASE Forward(own)
    <2>1. /\ Ends(h).dst = Stash(own.id, Head(own.todo)) /\ Ends(h).src \notin Stashes
          /\ Ends(h).src \in Places /\ Ends(h).dst \in Places /\ Head(own.todo) \in ToSet(own.todo)
      BY <1>3, ForwardPlaces, EndsOfRequest
    <2>2. /\ own.pc = "move" => files[Ends(h).dst] = "none"
          /\ own.pc = "copying" => own.dst = Ends(h).dst /\ files[Ends(h).dst] = "part"
      BY <1>3, <2>1 DEF StashInv, Removed
    <2>3. PICK src \in Places, dst \in Places : src = Ends(h).src /\ dst = Ends(h).dst
      BY <2>1
    <2>4. CASE AtOnce(h) \/ Opens(h)
      <3>1. place # src /\ place # dst
        BY <2>1, <2>2, <2>3, <2>4 DEF AtOnce, Opens
      <3> QED BY <1>1, <2>3, <2>4, <3>1 DEF AtOnce, Opens
    <2>5. CASE Writes(h)
      <3>1. place # own.dst
        BY <2>2, <2>5 DEF Writes
      <3> QED BY <1>1, <2>5, <3>1 DEF Writes
    <2>6. CASE Drops(h)
      BY <1>1, <2>1, <2>6 DEF Drops
    <2>7. ~Purge(h)
      BY PurgeIs DEF ControlInv, InShape
    <2> QED BY <2>4, <2>5, <2>6, <2>7, FilesStep DEF Leaves
  <1> QED BY <1>2, <1>3, MovingWays

LEMMA SourceKeptByMoves ==
  ASSUME ControlInv, StashInv, ~Meeting, NEW h \in Handlers, Step(h) \/ Request(h) \/ Failure(h),
         Moving(handler[h]), ~PutsBack(handler[h]),
         NEW g \in Handlers \ {h}, Forward(handler[g]), handler[g].pc \in {"copying", "unlink"},
         Head(handler[g].todo) = Head(handler[h].todo), files'[Ends(g).src] = "whole"
  PROVE  files[Ends(g).src] = "whole"
  <1> DEFINE own == handler[h]
  <1>1. files \in [Places -> Contents]
    BY DEF ControlInv, LibraryTypes
  <1>2. Moving(handler[g])
    BY MovingPcs
  <1>3. PICK place \in Places : place = Ends(g).src /\ place \notin Stashes
    BY <1>2, ForwardPlaces
  <1>4. CASE own.op = "rename"
    <2>1. own.pc \in {"check", "move"}
      BY <1>4, MovingWays
    <2>2. Ends(h).src \in Places /\ Ends(h).dst \in Places /\ Ends(h).dst = Home("source", own.to)
          /\ Head(own.todo) = "source"
      BY <1>4, RenamePlaces
    <2>3. ASSUME own.pc = "move" PROVE Ends(h).dst # place
      <3>1. SUFFICES ASSUME Ends(h).dst = place PROVE FALSE
        OBVIOUS
      <3>2. place = Home("source", handler[g].row.path)
        <4>1. handler[g].op # "restore" /\ handler[g].op # "rename" /\ Stashing(handler[g])
          BY <1>2, ForwardPlaces DEF Forward, Removes
        <4> QED BY <1>2, <1>3, <2>2, <4>1, EndsOfRequest
      <3>3. own.to = handler[g].row.path
        BY <2>2, <3>1, <3>2, HomesDiffer
      <3>4. RenamesOnto(own, handler[g])
        BY <1>4, <2>3, <3>3 DEF RenamesOnto
      <3> QED BY <1>2, <3>4, NotMeeting
    <2>4. CASE AtOnce(h) \/ Opens(h)
      BY <1>1, <1>3, <2>2, <2>3, <2>4 DEF AtOnce, Opens
    <2> QED BY <1>3, <2>1, <2>4, FilesStep, PurgeIs DEF Writes, Drops, Leaves
  <1>5. CASE Forward(own)
    <2>1. /\ Ends(h).dst \in Places /\ Ends(h).src \in Places /\ Ends(h).dst # place
          /\ own.pc = "copying" => own.dst = Ends(h).dst
      <3>1. Ends(h).dst = Stash(own.id, Head(own.todo)) /\ own.id \in Ids /\ Head(own.todo) \in Kinds
        BY <1>5, ForwardPlaces
      <3>2. own.pc = "copying" => own.dst = Ends(h).dst
        BY <1>5 DEF StashInv, Removed
      <3> QED BY <1>3, <1>5, <3>1, <3>2, StashesAre, ForwardPlaces
    <2>2. PICK src \in Places, dst \in Places : src = Ends(h).src /\ dst = Ends(h).dst
      BY <2>1
    <2>3. CASE AtOnce(h) \/ Opens(h)
      BY <1>1, <1>3, <2>1, <2>2, <2>3 DEF AtOnce, Opens
    <2>4. CASE Writes(h)
      BY <1>1, <1>3, <2>1, <2>4 DEF Writes
    <2>5. CASE Drops(h)
      BY <1>1, <1>3, <2>1, <2>5 DEF Drops
    <2>6. ~Purge(h)
      BY PurgeIs DEF ControlInv, InShape
    <2> QED BY <1>3, <2>3, <2>4, <2>5, <2>6, FilesStep DEF Leaves
  <1> QED BY <1>4, <1>5, MovingWays

\* Another request's step leaves a request its whole file.
LEMMA SafeByOthers ==
  ASSUME ControlInv, StashInv, ~Meeting, NEW h \in Handlers, Step(h) \/ Request(h) \/ Failure(h),
         NEW g \in Handlers \ {h}, Moving(handler[g]), Safe(g), ~DeletionRecorded(Head(handler[g].todo))
  PROVE  Safe(g)'
  <1>1. CASE ~ (Moving(handler[h]) /\ Head(handler[h].todo) = Head(handler[g].todo))
    BY <1>1, SafeElsewhere
  <1>2. CASE Moving(handler[h]) /\ Head(handler[h].todo) = Head(handler[g].todo)
    <2>1. ~PutsBack(handler[g]) /\ ~PutsBack(handler[h])
      BY <1>2, NotMeeting
    <2>2. Alike(handler[g], handler'[g]) /\ Ends(g)' = Ends(g)
      BY OthersAlike, EndsSame
    <2>3. /\ handler'[g].pc = handler[g].pc /\ handler'[g].got = handler[g].got
          /\ handler'[g].todo = handler[g].todo
          /\ Forward(handler'[g]) <=> Forward(handler[g])
          /\ ~PutsBack(handler'[g])
      BY <2>1, <2>2 DEF Alike, Forward, Removes, PutsBack
    <2>4. SUFFICES ASSUME Forward(handler[g]), handler[g].pc \in {"copying", "unlink"}
                   PROVE  \/ handler[g].pc = "copying" /\ handler[g].got = "whole"
                          \/ files'[Ends(g).src] # "whole"
                          \/ WholeInTrash(Head(handler[g].todo))'
      BY <2>2, <2>3 DEF Safe
    <2>5. \/ handler[g].pc = "copying" /\ handler[g].got = "whole"
          \/ files[Ends(g).src] # "whole"
          \/ WholeInTrash(Head(handler[g].todo))
      BY <2>4 DEF Safe
    <2>6. CASE files[Ends(g).src] # "whole"
      BY <1>2, <2>1, <2>4, <2>6, SourceKeptByMoves
    <2>7. CASE WholeInTrash(Head(handler[g].todo))
      <3>1. PICK k \in Kinds : k = Head(handler[g].todo)
        BY EndsOfRequest
      <3>2. PICK i \in Ids : files[Stash(i, k)] = "whole"
        BY <2>7, <3>1 DEF WholeInTrash
      <3>3. files'[Stash(i, k)] = "whole"
        BY <1>2, <2>1, <3>2, StashesAre, TrashKeptByMoves
      <3>4. WholeInTrash(k)'
        BY <3>3 DEF WholeInTrash
      <3> QED BY <3>1, <3>4, <2>3
    <2> QED BY <2>5, <2>6, <2>7
  <1> QED BY <1>1, <1>2

\* A compile job's output adds a whole file to those there are.
LEMMA SafeByPublish ==
  ASSUME ControlInv, StashInv, Publish, NEW g \in Handlers, Moving(handler'[g]), Safe(g),
         WholeAt(Head(handler[g].todo), {})
  PROVE  Safe(g)'
  <1>1. PICK home \in Places :
          /\ home = Home("output", "compiled") /\ home \notin Stashes /\ KindOf(home) = "output"
          /\ files' = [files EXCEPT ![home] = "whole"]
          /\ Alike(handler[g], handler'[g])
          /\ handler'[g].dst = FollowDst(handler[g], home, Nowhere)
    BY PublishIs
  <1>2. rec' = rec /\ files \in [Places -> Contents] /\ Nowhere \notin Places
    BY PublishIs, LibraryAssumption DEF ControlInv, LibraryTypes
  <1>3. PICK src \in Places, dst \in Places, k \in Kinds :
          /\ src = Ends(g).src /\ dst = Ends(g).dst /\ k = Head(handler[g].todo)
          /\ KindOf(src) = k /\ KindOf(dst) = k
    <2>1. Moving(handler[g])
      BY <1>1 DEF Alike, Moving
    <2> QED BY <2>1, EndsOfRequest
  <1>4. Ends(g)' = Ends(g)
    <2>1. EndsOf(handler'[g], rec') = EndsOf(handler[g], rec)
      BY <1>1, <1>2, EndsOfSame DEF Alike
    <2> QED BY <2>1 DEF Ends
  <1>5. Moving(handler[g])
    BY <1>1 DEF Alike, Moving
  <1>6. \A place \in Places : files[place] = "whole" => files'[place] = "whole"
    BY <1>1, <1>2
  <1>7. \A places : WholeAt(k, places) => WholeAt(k, places)'
    BY <1>6 DEF WholeAt
  <1>8. WholeInTrash(k) => WholeInTrash(k)'
    BY <1>6, StashesAre DEF WholeInTrash
  <1>9. /\ handler'[g].pc = handler[g].pc /\ handler'[g].got = handler[g].got
        /\ Head(handler'[g].todo) = k
        /\ Forward(handler'[g]) <=> Forward(handler[g])
        /\ PutsBack(handler'[g]) <=> PutsBack(handler[g])
    BY <1>1, <1>3 DEF Alike, Forward, Removes, PutsBack
  <1>10. handler[g].pc = "copying" =>
           \/ handler'[g].dst = handler[g].dst
           \/ handler[g].dst = home /\ handler'[g].dst = Nowhere
    BY <1>1 DEF FollowDst
  <1>11. files[src] # "whole" => files'[src] # "whole" \/ WholeInTrash(k)'
    <2>1. SUFFICES ASSUME files[src] # "whole", src = home PROVE WholeInTrash(k)'
      BY <1>1, <1>2
    <2>2. PICK place \in Places : files[place] = "whole" /\ KindOf(place) = k
      BY <1>3 DEF WholeAt
    <2>3. k = "output" /\ place # home
      BY <1>1, <1>3, <2>1, <2>2
    <2>4. place \in Stashes
      BY <1>1, <2>2, <2>3 DEF Places, KindOf, Home
    <2>5. PICK i \in Ids : place = Stash(i, k)
      BY <2>2, <2>4 DEF Stashes, Stash, KindOf
    <2> QED BY <1>8, <2>2, <2>5 DEF WholeInTrash
  <1>12. PICK from, at : from = handler[g].dst /\ at = handler'[g].dst
    OBVIOUS
  <1>13. ASSUME PutsBack(handler[g]), handler[g].pc = "copying"
         PROVE  /\ at \in {dst, Nowhere}
                /\ \/ at = dst /\ handler[g].got = "whole"
                   \/ WholeAt(k, {src, at})'
    <2>1. /\ from \in {dst, Nowhere}
          /\ \/ from = dst /\ handler[g].got = "whole"
             \/ WholeAt(k, {src, from})
      BY <1>3, <1>12, <1>13 DEF Safe
    <2>2. CASE at = from
      BY <1>7, <2>1, <2>2
    <2>3. CASE from = home /\ at = Nowhere
      <3>1. home = dst
        BY <1>2, <2>1, <2>3
      <3>2. src # dst
        <4>1. handler[g].op # "rename"
          BY <1>5, <1>13, MovingWays
        <4> QED BY <1>3, <1>5, <4>1, MovingWays
      <3>3. files'[home] = "whole" /\ KindOf(home) = k /\ home \notin {src, Nowhere}
        BY <1>1, <1>2, <1>3, <3>1, <3>2
      <3>4. WholeAt(k, {src, Nowhere})'
        BY <3>3 DEF WholeAt
      <3> QED BY <2>3, <3>4
    <2> QED BY <1>10, <1>12, <1>13, <2>2, <2>3
  <1>14. Ends(g)'.src = src /\ Ends(g)'.dst = dst
    BY <1>3, <1>4
  <1> HIDE DEF WholeAt, WholeInTrash, Ends
  <1>15. Forward(handler[g]) /\ handler[g].pc \in {"copying", "unlink"} =>
           \/ handler[g].pc = "copying" /\ handler[g].got = "whole"
           \/ files'[src] # "whole"
           \/ WholeInTrash(k)'
    BY <1>3, <1>8, <1>11 DEF Safe
  <1>16. PutsBack(handler[g]) /\ handler[g].pc = "move" => WholeAt(k, {dst})'
    BY <1>3, <1>7 DEF Safe
  <1>17. PutsBack(handler[g]) /\ handler[g].pc = "unlink" => WholeAt(k, {src})'
    BY <1>3, <1>7 DEF Safe
  <1> QED BY <1>9, <1>12, <1>13, <1>14, <1>15, <1>16, <1>17 DEF Safe

\* A request at a step after which nothing can be lost at once.
Calm(r) == r.pc \notin {"copying", "unlink"} /\ (PutsBack(r) => r.pc # "move")

LEMMA CalmSteps ==
  ASSUME NEW own, NEW r
  PROVE  /\ Fails(own, r) \/ r = IdleHandler \/ Goes(own, r, "purge") \/ Goes(own, r, "complete") => Calm(r)
         /\ Advances(own, r) => Calm(r)
  <1>1. Fails(own, r) \/ r = IdleHandler \/ Goes(own, r, "purge") \/ Goes(own, r, "complete") => Calm(r)
    BY DEF Fails, Goes, Calm, IdleHandler
  <1>2. Advances(own, r) => Calm(r)
    BY DEF Advances, Forward, Removes, PutsBack, Calm
  <1> QED BY <1>1, <1>2

\* The steps after which a request's whole file has to be looked for.
Checks(h, r) == Quiet /\ Goes(handler[h], r, "move") /\ ~Regular(Ends(h).dst)
Finishes(h, r) ==
  /\ FilesOnly /\ handler[h].pc = "copying" /\ Goes(handler[h], r, "unlink")
  /\ files' = IF handler[h].dst = Nowhere THEN files
              ELSE [files EXCEPT ![handler[h].dst] = handler[h].got]

LEMMA OwnSteps ==
  ASSUME ControlInv, NEW h \in Handlers, Step(h) \/ Request(h) \/ Failure(h)
  PROVE  \E r \in RequestTypes :
           /\ handler'[h] = r
           /\ \/ Calm(r)
              \/ Moving(handler[h]) /\ Checks(h, r)
              \/ handler[h].pc = "move" /\ FilesOnly /\ MoveCopies(h, r)
              \/ Finishes(h, r)
  <1> DEFINE own == handler[h]
             Found(r) == /\ handler'[h] = r
                         /\ \/ Calm(r)
                            \/ Moving(handler[h]) /\ Checks(h, r)
                            \/ handler[h].pc = "move" /\ FilesOnly /\ MoveCopies(h, r)
                            \/ Finishes(h, r)
  <1>1. SUFFICES \E r \in RequestTypes : Found(r)
    OBVIOUS
  <1>2. ASSUME NEW r \in RequestTypes, Turns(h, r), Calm(r) PROVE Found(r)
    BY <1>2 DEF Turns
  <1>3. CASE Check(h)
    <2>1. Quiet /\ Moving(own)
      BY <1>3, CheckIs, MovingPcs
    <2>2. PICK r \in RequestTypes :
            /\ Turns(h, r)
            /\ \/ Fails(own, r)
               \/ Goes(own, r, "move") /\ ~Regular(Ends(h).dst)
      BY <1>3, CheckIs
    <2>3. Found(r)
      BY <1>2, <2>1, <2>2, CalmSteps DEF Turns, Checks
    <2> QED BY <2>3
  <1>4. CASE Failure(h)
    <2>1. PICK r \in RequestTypes : Turns(h, r) /\ (Fails(own, r) \/ r = IdleHandler)
      BY <1>4, FailureIs
    <2> QED BY <1>2, <2>1, CalmSteps
  <1>5. CASE Move(h)
    <2>1. PICK r \in RequestTypes : Turns(h, r) /\ (MoveFails(h, r) \/ MoveAtOnce(h, r) \/ MoveCopies(h, r))
      BY <1>5, MoveIs
    <2>2. own.pc = "move" /\ FilesOnly
      BY <1>5, MoveIs
    <2>3. MoveFails(h, r) => Fails(own, r)
      BY DEF MoveFails
    <2>4. MoveAtOnce(h, r) => Advances(own, r)
      BY DEF MoveAtOnce
    <2>5. Found(r)
      BY <1>2, <2>1, <2>2, <2>3, <2>4, CalmSteps DEF Turns
    <2> QED BY <2>5
  <1>6. CASE Copied(h)
    <2>1. PICK r \in RequestTypes : Turns(h, r) /\ (Fails(own, r) \/ Goes(own, r, "unlink"))
      BY <1>6, CopiedIs
    <2>2. Goes(own, r, "unlink") => Finishes(h, r)
      BY <1>6, CopiedIs DEF Finishes
    <2>3. Found(r)
      BY <1>2, <2>1, <2>2, CalmSteps DEF Turns
    <2> QED BY <2>3
  <1>7. CASE Unlink(h)
    <2>1. PICK r \in RequestTypes : Turns(h, r) /\ (UnlinkFails(h, r) \/ UnlinkAtOnce(h, r))
      BY <1>7, UnlinkIs
    <2>2. Fails(own, r) \/ Advances(own, r)
      BY <2>1 DEF UnlinkFails, UnlinkAtOnce
    <2> QED BY <1>2, <2>1, <2>2, CalmSteps
  <1>8. CASE Commit(h)
    <2>1. PICK r \in RequestTypes : Turns(h, r) /\ (r = IdleHandler \/ Goes(own, r, "purge"))
      BY <1>8, CommitIs
    <2> QED BY <1>2, <2>1, CalmSteps
  <1>9. CASE Mark(h) \/ Complete(h)
    <2>1. Turns(h, IdleHandler) /\ IdleHandler \in RequestTypes
      BY <1>9, MarkIs, CompleteIs, IdleShape
    <2>2. Calm(IdleHandler)
      BY DEF Calm, IdleHandler
    <2> QED BY <1>2, <2>1, <2>2
  <1>10. CASE Purge(h)
    <2>1. PICK r \in RequestTypes : Turns(h, r) /\ Goes(own, r, "complete")
      BY <1>10, PurgeIs
    <2> QED BY <1>2, <2>1, CalmSteps
  <1>11. CASE TrashOrDelete(h)
    <2>1. PICK op \in {"trash", "delete"}, kinds \in SUBSET Kinds, id \in Ids, r \in RequestTypes :
            Turns(h, r) /\ Starts(h, r, op, id, kinds, "none")
      BY <1>11, TrashOrDeleteIs
    <2>2. Calm(r)
      BY <2>1 DEF Starts, PutsBack, Calm
    <2> QED BY <1>2, <2>1, <2>2
  <1>12. CASE Restore(h)
    <2>1. PICK id \in Ids, r \in RequestTypes : Turns(h, r) /\ Starts(h, r, "restore", id, rec[id].kinds, "none")
      BY <1>12, RestoreIs
    <2>2. Calm(r)
      BY <2>1 DEF Starts, Calm
    <2> QED BY <1>2, <2>1, <2>2
  <1>13. CASE Rename(h)
    <2>1. PICK to \in Paths, r \in RequestTypes : Turns(h, r) /\ Starts(h, r, "rename", Nowhere, {"source"}, to)
      BY <1>13, RenameIs
    <2>2. Calm(r)
      BY <2>1 DEF Starts, Calm
    <2> QED BY <1>2, <2>1, <2>2
  <1> QED BY <1>3, <1>4, <1>5, <1>6, <1>7, <1>8, <1>9, <1>10, <1>11, <1>12, <1>13 DEF Step, Request

\* A request's own step leaves it a whole file.
LEMMA SafeByOwn ==
  ASSUME ControlInv, StashInv, NEW h \in Handlers, Step(h) \/ Request(h) \/ Failure(h),
         Moving(handler'[h]), FreeAhead(h),
         Moving(handler[h]) /\ Head(handler[h].todo) = Head(handler'[h].todo) =>
           WholeAt(Head(handler[h].todo), {}) /\ Safe(h)
  PROVE  Safe(h)'
  <1> DEFINE own == handler[h]
  <1>1. PICK r \in RequestTypes :
          /\ handler'[h] = r
          /\ \/ Calm(r)
             \/ Moving(own) /\ Checks(h, r)
             \/ own.pc = "move" /\ FilesOnly /\ MoveCopies(h, r)
             \/ Finishes(h, r)
    BY OwnSteps
  <1>2. CASE Calm(r)
    BY <1>1, <1>2 DEF Calm, Safe
  <1>3. ASSUME NEW pc, Goes(own, r, pc), Moving(own), rec' = rec
        PROVE  /\ Ends(h)' = Ends(h) /\ WholeAt(Head(own.todo), {}) /\ Safe(h)
               /\ Forward(r) <=> Forward(own)
               /\ PutsBack(r) <=> PutsBack(own)
    <2>1. EndsOf(r, rec) = EndsOf(own, rec)
      BY <1>3, EndsOfSame DEF Goes
    <2>2. Ends(h)' = Ends(h)
      BY <1>1, <1>3, <2>1 DEF Ends
    <2> QED BY <1>1, <1>3, <2>2 DEF Goes, Forward, Removes, PutsBack
  <1>4. ASSUME NEW pc, Goes(own, r, pc), Moving(own)
        PROVE  \E src \in Places, dst \in Places, k \in Kinds :
                 /\ src = Ends(h).src /\ dst = Ends(h).dst /\ k = Head(own.todo) /\ Head(r.todo) = k
                 /\ KindOf(src) = k /\ KindOf(dst) = k
                 /\ own.op # "rename" => src # dst
                 /\ Forward(own) => dst = Stash(own.id, k) /\ own.id \in Ids /\ src \notin Stashes
    <2>1. Forward(own) => Ends(h).dst = Stash(own.id, Head(own.todo)) /\ own.id \in Ids
                          /\ Ends(h).src \notin Stashes
      BY <1>4, ForwardPlaces
    <2>2. own.op # "rename" => Ends(h).src # Ends(h).dst
      BY <1>4, MovingWays
    <2>3. Head(r.todo) = Head(own.todo)
      BY <1>4 DEF Goes
    <2> QED BY <1>4, <2>1, <2>2, <2>3, EndsOfRequest
  <1>5. files \in [Places -> Contents] /\ Nowhere \notin Places
    BY LibraryAssumption DEF ControlInv, LibraryTypes
  <1>6. CASE Moving(own) /\ Checks(h, r)
    <2>1. Goes(own, r, "move") /\ files' = files /\ rec' = rec /\ ~Regular(Ends(h).dst)
      BY <1>6 DEF Checks, Quiet
    <2>2. PICK dst \in Places, k \in Kinds : dst = Ends(h).dst /\ k = Head(own.todo) /\ Head(r.todo) = k
      BY <1>4, <1>6, <2>1
    <2>3. PICK place \in Places : files[place] = "whole" /\ KindOf(place) = k
      BY <1>3, <1>6, <2>1, <2>2 DEF WholeAt
    <2>4. WholeAt(k, {dst})'
      BY <2>1, <2>2, <2>3 DEF WholeAt, Regular
    <2>5. Ends(h)'.dst = dst /\ r.pc = "move"
      BY <1>3, <1>6, <2>1, <2>2 DEF Goes
    <2> HIDE DEF WholeAt
    <2> QED BY <1>1, <2>2, <2>4, <2>5 DEF Safe
  <1>7. CASE own.pc = "move" /\ FilesOnly /\ MoveCopies(h, r)
    <2>1. /\ Moving(own) /\ Goes(own, r, "copying") /\ r.dst = Ends(h).dst /\ rec' = rec
          /\ own.op # "rename"
          /\ files' = [files EXCEPT ![Ends(h).dst] = "part"]
          /\ r.got = IF files[Ends(h).src] = "part" THEN "cut" ELSE files[Ends(h).src]
      BY <1>7, MovingPcs DEF MoveCopies, FilesOnly
    <2>2. PICK src \in Places, dst \in Places, k \in Kinds :
            /\ src = Ends(h).src /\ dst = Ends(h).dst /\ k = Head(own.todo) /\ Head(r.todo) = k
            /\ src # dst
      BY <1>4, <2>1
    <2>3. Ends(h)'.dst = dst /\ Ends(h)'.src = src /\ r.pc = "copying" /\ r.dst = dst
      BY <1>3, <2>1, <2>2 DEF Goes
    <2>4. files' = [files EXCEPT ![dst] = "part"]
      BY <2>1, <2>2
    <2>5. files'[src] # "whole" \/ r.got = "whole"
      BY <1>5, <2>1, <2>2, <2>4
    <2>6. ASSUME PutsBack(r) PROVE r.got = "whole" \/ WholeAt(k, {src, dst})'
      <3>1. WholeAt(k, {dst})
        BY <1>3, <1>7, <2>1, <2>2, <2>6 DEF Safe
      <3>2. PICK place \in Places : files[place] = "whole" /\ KindOf(place) = k /\ place # dst
        BY <3>1 DEF WholeAt
      <3>3. CASE place = src
        BY <2>1, <2>2, <3>2, <3>3
      <3>4. CASE place # src
        <4>1. files'[place] = "whole"
          BY <1>5, <2>4, <3>2
        <4> QED BY <3>2, <3>4, <4>1 DEF WholeAt
      <3> QED BY <3>3, <3>4
    <2> HIDE DEF WholeAt
    <2> QED BY <1>1, <2>2, <2>3, <2>5, <2>6 DEF Safe
  <1>8. CASE Finishes(h, r)
    <2>1. /\ own.pc = "copying" /\ Moving(own) /\ Goes(own, r, "unlink") /\ rec' = rec
          /\ files' = IF own.dst = Nowhere THEN files ELSE [files EXCEPT ![own.dst] = own.got]
      BY <1>8, MovingPcs DEF Finishes, FilesOnly
    <2>2. PICK src \in Places, dst \in Places, k \in Kinds :
            /\ src = Ends(h).src /\ dst = Ends(h).dst /\ k = Head(own.todo) /\ Head(r.todo) = k
            /\ KindOf(src) = k /\ KindOf(dst) = k /\ src # dst
            /\ Forward(own) => dst = Stash(own.id, k) /\ own.id \in Ids /\ src \notin Stashes
      <3>1. own.op # "rename"
        BY <2>1, MovingWays
      <3> QED BY <1>4, <2>1, <3>1
    <2>3. /\ Ends(h)'.dst = dst /\ Ends(h)'.src = src /\ r.pc = "unlink" /\ Safe(h)
          /\ Forward(r) <=> Forward(own)
          /\ PutsBack(r) <=> PutsBack(own)
      BY <1>3, <2>1, <2>2 DEF Goes
    <2>4. PICK at \in Places \cup {Nowhere} : at = own.dst
      BY DEF ControlInv, LibraryTypes, RequestTypes
    <2>5. ASSUME Forward(own) PROVE files'[src] # "whole" \/ WholeInTrash(k)'
      <3>1. at = dst /\ files[dst] = "part"
        BY <2>1, <2>2, <2>4, <2>5, EndsOfRequest DEF StashInv, Removed
      <3>2. own.got = "whole" \/ files[src] # "whole" \/ WholeInTrash(k)
        BY <2>1, <2>2, <2>3, <2>5 DEF Safe
      <3>3. files' = [files EXCEPT ![dst] = own.got]
        BY <1>5, <2>1, <2>4, <3>1
      <3>4. CASE own.got = "whole"
        <4>1. files'[Stash(own.id, k)] = "whole" /\ own.id \in Ids
          BY <1>5, <2>2, <2>5, <3>3, <3>4
        <4> QED BY <4>1 DEF WholeInTrash
      <3>5. CASE files[src] # "whole"
        BY <1>5, <2>2, <3>3, <3>5
      <3>6. CASE WholeInTrash(k)
        <4>1. PICK i \in Ids : files[Stash(i, k)] = "whole"
          BY <3>6 DEF WholeInTrash
        <4>2. files'[Stash(i, k)] = "whole"
          BY <1>5, <3>1, <3>3, <4>1, StashesAre
        <4> QED BY <4>2 DEF WholeInTrash
      <3> QED BY <3>2, <3>4, <3>5, <3>6
    <2>6. ASSUME PutsBack(own) PROVE WholeAt(k, {src})'
      <3>1. \/ at = dst /\ own.got = "whole"
            \/ WholeAt(k, {src, at})
        BY <2>1, <2>2, <2>3, <2>4, <2>6 DEF Safe
      <3>2. CASE at = dst /\ own.got = "whole"
        <4>1. files'[dst] = "whole"
          BY <1>5, <2>1, <2>2, <2>4, <3>2
        <4> QED BY <2>2, <4>1 DEF WholeAt
      <3>3. CASE WholeAt(k, {src, at})
        <4>1. PICK place \in Places : /\ files[place] = "whole" /\ KindOf(place) = k
                                      /\ place # src /\ place # at
          BY <3>3 DEF WholeAt
        <4>2. files'[place] = "whole"
          BY <1>5, <2>1, <2>4, <4>1
        <4> QED BY <4>1, <4>2 DEF WholeAt
      <3> QED BY <3>1, <3>2, <3>3
    <2> HIDE DEF WholeAt, WholeInTrash
    <2> QED BY <1>1, <2>2, <2>3, <2>5, <2>6 DEF Safe
  <1> QED BY <1>1, <1>2, <1>6, <1>7, <1>8

\* KeptInv with the parts that are kept one by one.
KeptBy(k) ==
  /\ WholeAt(k, {})
  /\ \A h \in Handlers : Moving(handler[h]) /\ Head(handler[h].todo) = k => Safe(h)

KeptParts ==
  ~crossed => /\ ~Meeting
              /\ \A h \in Handlers : FreeAhead(h)
              /\ \A k \in Kinds : ~DeletionRecorded(k) => KeptBy(k)

LEMMA KeptIs == KeptInv <=> KeptParts
  BY DEF KeptInv, KeptParts, FreeAhead, KeptBy, Regular

LEMMA KeptNext == KeptInv' <=> KeptParts'
  BY KeptIs, PTL

LEMMA KeptByRequests ==
  ASSUME ControlInv, StashInv, ~Meeting, NEW h \in Handlers, Step(h) \/ Request(h) \/ Failure(h),
         \A g \in Handlers : FreeAhead(g), NEW k \in Kinds, ~DeletionRecorded(k), KeptBy(k)
  PROVE  KeptBy(k)'
  <1>1. WholeAt(k, {})'
    BY WholeKept DEF KeptBy
  <1>2. ASSUME NEW g \in Handlers, Moving(handler'[g]), Head(handler'[g].todo) = k
        PROVE  Safe(g)'
    <2>1. CASE g = h
      BY <1>2, <2>1, SafeByOwn DEF KeptBy
    <2>2. CASE g # h
      <3>1. Alike(handler[g], handler'[g])
        BY <2>2, OthersAlike
      <3>2. Moving(handler[g]) /\ Head(handler[g].todo) = k
        BY <1>2, <3>1 DEF Alike, Moving
      <3> QED BY <2>2, <3>2, SafeByOthers DEF KeptBy
    <2> QED BY <2>1, <2>2
  <1> QED BY <1>1, <1>2 DEF KeptBy

LEMMA KeptByTheRest ==
  ASSUME ControlInv, StashInv, Publish \/ Crash, \A g \in Handlers : FreeAhead(g),
         NEW k \in Kinds, KeptBy(k)
  PROVE  KeptBy(k)'
  <1>1. CASE Crash
    <2>1. files' = files /\ \A g \in Handlers : handler'[g] = IdleHandler
      BY <1>1, CrashIs DEF Quiet
    <2>2. \A g \in Handlers : ~Moving(handler'[g]) /\ handler'[g].op = "none"
      BY <2>1 DEF Moving, IdleHandler
    <2>3. WholeAt(k, {})'
      BY <2>1 DEF KeptBy, WholeAt
    <2> QED BY <2>2, <2>3 DEF KeptBy
  <1>2. CASE Publish
    <2>1. PICK home \in Places : /\ KindOf(home) = "output" /\ files' = [files EXCEPT ![home] = "whole"]
                                 /\ \A g \in Handlers : Alike(handler[g], handler'[g])
      BY <1>2, PublishIs
    <2>2. files \in [Places -> Contents] /\ rec' = rec
      BY <1>2, PublishIs DEF ControlInv, LibraryTypes
    <2>3. WholeAt(k, {})'
      BY <2>1, <2>2 DEF KeptBy, WholeAt
    <2>4. ASSUME NEW g \in Handlers, Moving(handler'[g]), Head(handler'[g].todo) = k
          PROVE  Safe(g)'
      <3>1. Moving(handler[g]) /\ Head(handler[g].todo) = k
        BY <2>1, <2>4 DEF Alike, Moving
      <3> QED BY <1>2, <2>4, <3>1, SafeByPublish DEF KeptBy
    <2> QED BY <2>3, <2>4 DEF KeptBy
  <1> QED BY <1>1, <1>2

LEMMA FreeByTheRest ==
  ASSUME ControlInv, Publish \/ Crash, \A g \in Handlers : FreeAhead(g)
  PROVE  \A g \in Handlers : FreeAhead(g)'
  <1>1. CASE Crash
    BY <1>1, CrashIs DEF FreeAhead
  <1>2. CASE Publish
    <2>1. PICK home \in Places : /\ KindOf(home) = "output" /\ files' = [files EXCEPT ![home] = "whole"]
                                 /\ \A g \in Handlers : Alike(handler[g], handler'[g])
      BY <1>2, PublishIs
    <2>2. files \in [Places -> Contents] /\ rec' = rec
      BY <1>2, PublishIs DEF ControlInv, LibraryTypes
    <2>3. ASSUME NEW g \in Handlers, handler'[g].op = "rename", handler'[g].pc = "move"
          PROVE  files'[Ends(g)'.dst] = "none"
      <3>1. handler[g].op = "rename" /\ handler[g].pc = "move" /\ Moving(handler[g])
        BY <2>1, <2>3, MovingPcs DEF Alike
      <3>2. PICK dst \in Places : dst = Ends(g).dst /\ KindOf(dst) = "source" /\ files[dst] = "none"
        BY <3>1, RenamePlaces DEF FreeAhead
      <3>3. EndsOf(handler'[g], rec) = EndsOf(handler[g], rec)
        BY <2>1, EndsOfSame DEF Alike
      <3>4. Ends(g)'.dst = dst
        BY <2>2, <3>2, <3>3 DEF Ends
      <3> QED BY <2>1, <2>2, <3>2, <3>4
    <2> QED BY <2>3 DEF FreeAhead
  <1> QED BY <1>1, <1>2

LEMMA KeptStep ==
  ASSUME ControlInv, StashInv, KeptInv, [Next]_vars
  PROVE  KeptInv'
  <1>1. CASE UNCHANGED vars
    BY <1>1 DEF vars, KeptInv, Meeting, Regular, Ends, DeletionRecorded, WholeAt, Safe, WholeInTrash
  <1>2. ASSUME Next, ~crossed'
        PROVE  /\ ~Meeting'
               /\ \A h \in Handlers : FreeAhead(h)'
               /\ \A k \in Kinds : ~DeletionRecorded(k)' => KeptBy(k)'
    <2>1. Action /\ ~crossed /\ ~Meeting'
      <3>1. Action /\ crossed' = (crossed \/ Meeting')
        BY <1>2 DEF Next
      <3> QED BY <1>2, <3>1, Zenon
    <2>2. /\ ~Meeting
          /\ \A h \in Handlers : FreeAhead(h)
          /\ \A k \in Kinds : ~DeletionRecorded(k) => KeptBy(k)
      BY <2>1, KeptIs DEF KeptParts
    <2>3. \A k \in Kinds : ~DeletionRecorded(k)' => ~DeletionRecorded(k)
      BY <2>1, DeletionStays
    <2>4. CASE Publish \/ Crash
      <3>1. \A k \in Kinds : ~DeletionRecorded(k)' => KeptBy(k)'
        BY <2>2, <2>3, <2>4, KeptByTheRest
      <3>2. \A h \in Handlers : FreeAhead(h)'
        BY <2>2, <2>4, FreeByTheRest
      <3> QED BY <2>1, <3>1, <3>2
    <2>5. ASSUME NEW h \in Handlers, Request(h) \/ Step(h) \/ Failure(h)
          PROVE  /\ \A g \in Handlers : FreeAhead(g)'
                 /\ \A k \in Kinds : ~DeletionRecorded(k)' => KeptBy(k)'
      <3>1. \A g \in Handlers : FreeAhead(g)'
        BY <2>2, <2>5, FreeByOwn, FreeByOthers
      <3>2. \A k \in Kinds : ~DeletionRecorded(k)' => KeptBy(k)'
        BY <2>2, <2>3, <2>5, KeptByRequests
      <3> QED BY <3>1, <3>2
    <2> QED BY <2>1, <2>4, <2>5 DEF Action
  <1>3. Next => KeptParts'
    BY <1>2 DEF KeptParts
  <1> QED BY <1>1, <1>3, KeptNext

LEMMA KeptStart == ASSUME Init PROVE KeptInv
  <1>1. PICK path \in Paths :
          files = [p \in Places |-> IF p \in {Home("source", path), Home("output", path)}
                                    THEN "whole" ELSE "none"]
    BY DEF Init
  <1>2. \A h \in Handlers : handler[h] = IdleHandler
    BY DEF Init
  <1>3. \A h \in Handlers : /\ ~Moving(handler[h]) /\ ~PutsBack(handler[h])
                            /\ handler[h].op # "rename"
    BY <1>2 DEF Moving, PutsBack, IdleHandler
  <1>4. ~Meeting
    BY <1>3 DEF Meeting, RenamesOnto
  <1>5. ASSUME NEW k \in Kinds PROVE KeptBy(k)
    <2>1. Home(k, path) \in Places /\ KindOf(Home(k, path)) = k
      BY HomesAre
    <2>2. k = "source" \/ k = "output"
      BY DEF Kinds
    <2>3. files[Home(k, path)] = "whole"
      BY <1>1, <2>1, <2>2
    <2> QED BY <1>3, <2>1, <2>3 DEF KeptBy, WholeAt
  <1>6. \A h \in Handlers : FreeAhead(h)
    BY <1>3 DEF FreeAhead
  <1> QED BY <1>4, <1>5, <1>6, KeptIs DEF KeptParts

\* Requests and records fit each other, nothing is in the trash but what they say,
\* and a request that moves a file leaves a whole one behind until the next is
\* there: the inductive invariant of the Library Manager's operations.
THEOREM LibraryInvariant == Spec => []LibraryInv
<1>1. Init => LibraryInv
  BY ControlStart, StashStart, KeptStart, TrashInvIs DEF LibraryInv
<1>2. LibraryInv /\ [Next]_vars => LibraryInv'
  <2> SUFFICES ASSUME LibraryInv, [Next]_vars PROVE LibraryInv'
    OBVIOUS
  <2>1. LibraryTypes /\ TrashInv /\ KeptInv
    BY DEF LibraryInv
  <2>2. ControlInv /\ StashInv /\ ListedTrashIsComplete
    BY <2>1, TrashInvIs
  <2>3. ControlInv' /\ StashInv' /\ ListedTrashIsComplete'
    BY <2>2, ControlStep, StashStep
  <2>4. KeptInv'
    BY <2>1, <2>2, KeptStep
  <2>5. LibraryTypes' /\ TrashInv'
    BY <2>3 DEF TrashInv, ControlInv, StashInv, ApartFiles
  <2> QED BY <2>4, <2>5 DEF LibraryInv
<1> QED BY <1>1, <1>2, PTL DEF Spec

\* However trashing, restoring, deleting, renaming and compiling overlap, fail and
\* are cut short, a file of the clip stays whole somewhere until its permanent
\* deletion is on record, unless two requests move the file at once, one of them
\* putting it back or renaming it onto the other's path.
THEOREM NoFileIsLost == Spec => []NothingIsLost
<1>1. LibraryInv => NothingIsLost
  BY DEF LibraryInv, KeptInv, WholeAt, NothingIsLost
<1> QED BY <1>1, LibraryInvariant, PTL
==============================================================================
