------------------------ MODULE ObjectVersionsProofs ------------------------
(***************************************************************************)
(* What writes, watch events and restarts do to sequences of versions, as  *)
(* lemmas that the proofs about every controller cite.                     *)
(***************************************************************************)
EXTENDS ObjectVersions, TLAPS

-----------------------------------------------------------------------------
(* One sequence of versions *)

(* A version is appended at the end; the others keep their places. *)
LEMMA AppendVersion ==
  ASSUME NEW S, NEW s \in Seq(S), NEW x \in S
  PROVE  /\ Append(s, x) \in Seq(S)
         /\ Append(s, x) # <<>>
         /\ Len(Append(s, x)) = Len(s) + 1
         /\ Append(s, x)[Len(s) + 1] = x
         /\ \A i \in 1 .. Len(s) : Append(s, x)[i] = s[i]
  OBVIOUS

(* Delivery drops the head and keeps at least the stored version. *)
LEMMA TailVersion ==
  ASSUME NEW S, NEW s \in Seq(S), Len(s) > 1
  PROVE  /\ Tail(s) \in Seq(S)
         /\ Tail(s) # <<>>
         /\ Len(Tail(s)) = Len(s) - 1
         /\ \A i \in 1 .. Len(s) - 1 : Tail(s)[i] = s[i + 1]
  <1>1. /\ Tail(s) \in Seq(S)
        /\ Len(Tail(s)) = Len(s) - 1
        /\ \A i \in 1 .. Len(s) - 1 : Tail(s)[i] = s[i + 1]
    OBVIOUS
  <1>2. Len(Tail(s)) # 0
    BY <1>1
  <1> QED  BY <1>1, <1>2

(* A nonempty sequence has a head and a last element of its range. *)
LEMMA EndsOfVersions ==
  ASSUME NEW S, NEW s \in Seq(S), s # <<>>
  PROVE  /\ Len(s) \in Nat /\ Len(s) >= 1
         /\ Cached(s) = s[1] /\ Cached(s) \in S
         /\ Stored(s) = s[Len(s)] /\ Stored(s) \in S
  BY DEF Cached, Stored

(* A sequence of one version. *)
LEMMA OneVersion ==
  ASSUME NEW S, NEW x \in S
  PROVE  /\ <<x>> \in Seq(S) /\ <<x>> # <<>>
         /\ Len(<<x>>) = 1 /\ <<x>>[1] = x
  OBVIOUS

-----------------------------------------------------------------------------
(* The versions of all objects of a kind.  A set of names is mapped to      *)
(* nonempty sequences.                                                      *)

VersionMaps(Key, V) == {m \in [Key -> Seq(V)] : \A k \in Key : m[k] # <<>>}

(* What a write, a delivery and a restart make of it *)
Appended(m, k, x) == [m EXCEPT ![k] = Append(@, x)]
Delivered(m, k) == [m EXCEPT ![k] = Tail(@)]
Relisted(m, Key) == [k \in Key |-> <<Stored(m[k])>>]

(* Where the versions of an object are *)
Places(s) == 1 .. Len(s)

(* What is read out of a map of versions. *)
LEMMA MapEnds ==
  ASSUME NEW Key, NEW V, NEW m \in VersionMaps(Key, V), NEW k \in Key
  PROVE  /\ m[k] \in Seq(V) /\ Len(m[k]) \in Nat /\ Len(m[k]) >= 1
         /\ 1 \in Places(m[k]) /\ Len(m[k]) \in Places(m[k])
         /\ \A i \in Places(m[k]) :
              i \in Nat /\ 1 <= i /\ i <= Len(m[k]) /\ m[k][i] \in V
         /\ Cached(m[k]) = m[k][1] /\ Cached(m[k]) \in V
         /\ Stored(m[k]) = m[k][Len(m[k])] /\ Stored(m[k]) \in V
  <1>1. m[k] \in Seq(V) /\ m[k] # <<>>
    BY DEF VersionMaps
  <1>2. /\ Len(m[k]) \in Nat /\ Len(m[k]) >= 1
        /\ Cached(m[k]) = m[k][1] /\ Cached(m[k]) \in V
        /\ Stored(m[k]) = m[k][Len(m[k])] /\ Stored(m[k]) \in V
    BY <1>1, EndsOfVersions
  <1> QED  BY <1>1, <1>2 DEF Places

(* A write adds one version at the end, and touches one object only. *)
LEMMA MapAppend ==
  ASSUME NEW Key, NEW V, NEW m \in VersionMaps(Key, V), NEW k \in Key, NEW x \in V
  PROVE  LET next == Appended(m, k, x)
         IN  /\ next \in VersionMaps(Key, V)
             /\ Places(next[k]) = Places(m[k]) \cup {Len(m[k]) + 1}
             /\ \A i \in Places(m[k]) : i < Len(m[k]) + 1 /\ next[k][i] = m[k][i]
             /\ next[k][Len(m[k]) + 1] = x
             /\ Stored(next[k]) = x
             /\ \A j \in Key \ {k} : next[j] = m[j]
  <1> DEFINE next == Appended(m, k, x)
  <1>1. m \in [Key -> Seq(V)] /\ m[k] \in Seq(V) /\ Len(m[k]) \in Nat
    BY DEF VersionMaps
  <1>2. /\ Append(m[k], x) \in Seq(V)
        /\ Append(m[k], x) # <<>>
        /\ Len(Append(m[k], x)) = Len(m[k]) + 1
        /\ Append(m[k], x)[Len(m[k]) + 1] = x
        /\ \A i \in 1 .. Len(m[k]) : Append(m[k], x)[i] = m[k][i]
    BY <1>1, AppendVersion
  <1>3. next[k] = Append(m[k], x) /\ \A j \in Key \ {k} : next[j] = m[j]
    BY <1>1 DEF Appended
  <1>4. next \in VersionMaps(Key, V)
    BY <1>1, <1>2 DEF VersionMaps, Appended
  <1> QED  BY <1>1, <1>2, <1>3, <1>4 DEF Places, Stored

(* A delivery drops the head and leaves the stored version alone. *)
LEMMA MapTail ==
  ASSUME NEW Key, NEW V, NEW m \in VersionMaps(Key, V), NEW k \in Key,
         Len(m[k]) > 1
  PROVE  LET next == Delivered(m, k)
         IN  /\ next \in VersionMaps(Key, V)
             /\ \A i \in Places(next[k]) :
                  i \in Nat /\ i + 1 \in Places(m[k]) /\ next[k][i] = m[k][i + 1]
             /\ \A j \in Key : Stored(next[j]) = Stored(m[j])
             /\ \A j \in Key \ {k} : next[j] = m[j]
  <1> DEFINE next == Delivered(m, k)
  <1>1. m \in [Key -> Seq(V)] /\ m[k] \in Seq(V) /\ Len(m[k]) \in Nat
    BY DEF VersionMaps
  <1>2. /\ Tail(m[k]) \in Seq(V)
        /\ Tail(m[k]) # <<>>
        /\ Len(Tail(m[k])) = Len(m[k]) - 1
        /\ \A i \in 1 .. Len(m[k]) - 1 : Tail(m[k])[i] = m[k][i + 1]
    BY <1>1, TailVersion
  <1>3. next[k] = Tail(m[k]) /\ \A j \in Key \ {k} : next[j] = m[j]
    BY <1>1 DEF Delivered
  <1>4. next \in VersionMaps(Key, V)
    BY <1>1, <1>2 DEF VersionMaps, Delivered
  <1>5. Stored(next[k]) = Stored(m[k])
    BY <1>1, <1>2, <1>3 DEF Stored
  <1>6. \A i \in Places(next[k]) :
          i \in Nat /\ i + 1 \in Places(m[k]) /\ next[k][i] = m[k][i + 1]
    BY <1>1, <1>2, <1>3 DEF Places
  <1> QED  BY <1>3, <1>4, <1>5, <1>6

(* A restart leaves the stored version alone, as the only one. *)
LEMMA MapRestart ==
  ASSUME NEW Key, NEW V, NEW m \in VersionMaps(Key, V)
  PROVE  LET next == Relisted(m, Key)
         IN  /\ next \in VersionMaps(Key, V)
             /\ \A k \in Key : /\ Places(next[k]) = {1}
                               /\ next[k][1] = Stored(m[k])
                               /\ Stored(next[k]) = Stored(m[k])
  <1> DEFINE next == Relisted(m, Key)
  <1>1. \A k \in Key : Stored(m[k]) \in V
    BY MapEnds
  <1>2. \A k \in Key : /\ next[k] \in Seq(V) /\ next[k] # <<>>
                       /\ Len(next[k]) = 1 /\ next[k][1] = Stored(m[k])
    BY <1>1, OneVersion DEF Relisted
  <1>3. next \in VersionMaps(Key, V)
    BY <1>2 DEF VersionMaps, Relisted
  <1>4. \A k \in Key : /\ Places(next[k]) = {1}
                       /\ Stored(next[k]) = Stored(m[k])
    <2> SUFFICES ASSUME NEW k \in Key
                 PROVE  Places(next[k]) = {1} /\ Stored(next[k]) = Stored(m[k])
      OBVIOUS
    <2> DEFINE s == next[k]
    <2>1. Len(s) = 1 /\ s[1] = Stored(m[k])
      BY <1>2
    <2> HIDE DEF s
    <2>2. Places(s) = {1}
      BY <2>1 DEF Places
    <2>3. Stored(s) = s[1]
      BY <2>1 DEF Stored
    <2> QED  BY <2>1, <2>2, <2>3 DEF s
  <1> QED  BY <1>2, <1>3, <1>4

-----------------------------------------------------------------------------
(* The lineage of an object: what the copies of it that somebody can still  *)
(* act on have to do with each other.  The copy that a running Reconcile w  *)
(* holds, a record with the fields pc, key and item, is the oldest: it is   *)
(* at place 0, before the versions.                                         *)

Busy(w, k) == w.pc # "idle" /\ w.key = k

Views(m, w, k) == Places(m[k]) \cup {i \in {0} : Busy(w, k)}

View(m, w, k, i) == IF i = 0 THEN w.item ELSE m[k][i]

(* What a newer copy w of a name can be when v is an older one: an older    *)
(* incarnation is out of sight before a newer one gets its finalizer; of    *)
(* one incarnation the generations grow and tell the spec, and neither the  *)
(* deletion mark nor the finalizer is ever taken back.                      *)
Precedes(v, w) ==
  v # Absent /\ w # Absent =>
    /\ v.uid <= w.uid
    /\ v.uid # w.uid => w.fins = {}
    /\ v.uid = w.uid =>
         /\ v.gen <= w.gen
         /\ v.gen = w.gen => v.spec = w.spec /\ v.deleting = w.deleting
         /\ v.deleting => w.deleting
         /\ v.fins # {} => w.fins # {}

(* A copy that leads Reconcile to make something *)
Active(v) == v # Absent /\ ~v.deleting /\ v.fins # {}

(* o is stored, and an object of the incarnation that v is a copy of. *)
StillStored(o, v) == o # Absent /\ o.uid = v.uid

Issued(m, w, Key, last) ==
  \A k \in Key : \A i \in Views(m, w, k) :
    View(m, w, k, i) # Absent => View(m, w, k, i).uid <= last

Ordered(m, w, Key) ==
  \A k \in Key : \A i, j \in Views(m, w, k) :
    i <= j => Precedes(View(m, w, k, i), View(m, w, k, j))

ActiveIsStored(m, w, Key) ==
  \A k \in Key : \A i \in Views(m, w, k) :
    Active(View(m, w, k, i)) => StillStored(Stored(m[k]), View(m, w, k, i))

Distinct(m, w, Key) ==
  \A k, l \in Key : k # l =>
    \A i \in Views(m, w, k), j \in Views(m, w, l) :
      View(m, w, k, i) # Absent /\ View(m, w, l, j) # Absent
        => View(m, w, k, i).uid # View(m, w, l, j).uid

Lineage(m, w, Key, last) ==
  /\ Issued(m, w, Key, last)
  /\ Ordered(m, w, Key)
  /\ ActiveIsStored(m, w, Key)
  /\ Distinct(m, w, Key)

(* Where the copies say that what their incarnation makes is, as T tells of *)
(* a spec: they agree, unless the incarnation was moved by an edit.         *)
TargetsAgree(m, w, Key, T, moved) ==
  \A k \in Key : \A i, j \in Views(m, w, k) :
    LET v == View(m, w, k, i)
        x == View(m, w, k, j)
    IN  v # Absent /\ x # Absent /\ v.uid = x.uid /\ v.uid \notin moved
          => T[v.spec] = T[x.spec]

(* What an incarnation has made is where its copies say. *)
MadeAtTarget(m, w, Key, T, moved, P, owner) ==
  \A k \in Key : \A i \in Views(m, w, k) :
    LET v == View(m, w, k, i)
    IN  v # Absent /\ v.uid \notin moved =>
          \A p \in P : owner[p] = v.uid => p = T[v.spec]

-----------------------------------------------------------------------------
(* What can be seen after each kind of change. *)

(* Incarnations and generations are counted. *)
Versioned(V) == \A v \in V : v # Absent => v.uid \in Nat /\ v.gen \in Nat

Tracked(Key, V, m, w) ==
  /\ Versioned(V)
  /\ m \in VersionMaps(Key, V)
  /\ w.pc # "idle" => w.key \in Key /\ w.item \in V /\ w.item # Absent

(* The copies that can be seen, and where the ends are. *)
LEMMA ViewType ==
  ASSUME NEW Key, NEW V, NEW m, NEW w, Tracked(Key, V, m, w), NEW k \in Key
  PROVE  /\ \A i \in Views(m, w, k) :
              /\ i \in Nat /\ i <= Len(m[k]) /\ View(m, w, k, i) \in V
              /\ View(m, w, k, i) # Absent =>
                   View(m, w, k, i).uid \in Nat /\ View(m, w, k, i).gen \in Nat
         /\ Len(m[k]) \in Nat /\ Len(m[k]) >= 1
         /\ 1 \in Views(m, w, k) /\ View(m, w, k, 1) = Cached(m[k])
         /\ Cached(m[k]) \in V
         /\ Len(m[k]) \in Views(m, w, k)
         /\ View(m, w, k, Len(m[k])) = Stored(m[k]) /\ Stored(m[k]) \in V
         /\ Busy(w, k) => /\ 0 \in Views(m, w, k) /\ View(m, w, k, 0) = w.item
                          /\ w.item \in V /\ w.item # Absent
  <1>1. m \in VersionMaps(Key, V) /\ Versioned(V)
        /\ (Busy(w, k) => w.item \in V /\ w.item # Absent)
    BY DEF Tracked, Busy
  <1>2. /\ Len(m[k]) \in Nat /\ Len(m[k]) >= 1
        /\ 1 \in Places(m[k]) /\ Len(m[k]) \in Places(m[k])
        /\ \A i \in Places(m[k]) :
             i \in Nat /\ 1 <= i /\ i <= Len(m[k]) /\ m[k][i] \in V
        /\ Cached(m[k]) = m[k][1] /\ Cached(m[k]) \in V
        /\ Stored(m[k]) = m[k][Len(m[k])] /\ Stored(m[k]) \in V
    BY <1>1, MapEnds
  <1>3. \A i \in Views(m, w, k) :
          i \in Nat /\ i <= Len(m[k]) /\ View(m, w, k, i) \in V
    BY <1>1, <1>2 DEF Views, View
  <1>4. \A i \in Views(m, w, k) : View(m, w, k, i) # Absent =>
          View(m, w, k, i).uid \in Nat /\ View(m, w, k, i).gen \in Nat
    BY <1>1, <1>3 DEF Versioned
  <1> QED  BY <1>1, <1>2, <1>3, <1>4 DEF Views, View

(* A write adds a copy after the others. *)
LEMMA ViewsAppend ==
  ASSUME NEW Key, NEW V, NEW m, NEW w, Tracked(Key, V, m, w), NEW k \in Key,
         NEW x \in V
  PROVE  LET next == Appended(m, k, x)
         IN  /\ Tracked(Key, V, next, w)
             /\ Views(next, w, k) = Views(m, w, k) \cup {Len(m[k]) + 1}
             /\ \A i \in Views(m, w, k) :
                  i < Len(m[k]) + 1 /\ View(next, w, k, i) = View(m, w, k, i)
             /\ View(next, w, k, Len(m[k]) + 1) = x
             /\ Stored(next[k]) = x
             /\ \A l \in Key \ {k} :
                  /\ Views(next, w, l) = Views(m, w, l)
                  /\ \A i \in Views(m, w, l) : View(next, w, l, i) = View(m, w, l, i)
                  /\ Stored(next[l]) = Stored(m[l])
  <1> DEFINE next == Appended(m, k, x)
  <1>1. m \in VersionMaps(Key, V)
    BY DEF Tracked
  <1>2. /\ next \in VersionMaps(Key, V)
        /\ Places(next[k]) = Places(m[k]) \cup {Len(m[k]) + 1}
        /\ \A i \in Places(m[k]) : i < Len(m[k]) + 1 /\ next[k][i] = m[k][i]
        /\ next[k][Len(m[k]) + 1] = x
        /\ Stored(next[k]) = x
        /\ \A j \in Key \ {k} : next[j] = m[j]
    BY <1>1, MapAppend
  <1>3. Len(m[k]) \in Nat
    BY <1>1, MapEnds
  <1>4. Tracked(Key, V, next, w)
    BY <1>2 DEF Tracked
  <1> QED  BY <1>2, <1>3, <1>4 DEF Views, View

(* A delivery moves the versions up by one place. *)
LEMMA ViewsTail ==
  ASSUME NEW Key, NEW V, NEW m, NEW w, Tracked(Key, V, m, w), NEW k \in Key,
         Len(m[k]) > 1
  PROVE  LET next == Delivered(m, k)
         IN  /\ Tracked(Key, V, next, w)
             /\ \A i \in Views(next, w, k) :
                  \/ /\ i = 0 /\ 0 \in Views(m, w, k)
                     /\ View(next, w, k, i) = View(m, w, k, 0)
                  \/ /\ i \in Nat \ {0} /\ i + 1 \in Views(m, w, k)
                     /\ View(next, w, k, i) = View(m, w, k, i + 1)
             /\ \A l \in Key \ {k} :
                  /\ Views(next, w, l) = Views(m, w, l)
                  /\ \A i \in Views(m, w, l) : View(next, w, l, i) = View(m, w, l, i)
             /\ \A l \in Key : Stored(next[l]) = Stored(m[l])
  <1> DEFINE next == Delivered(m, k)
  <1>1. m \in VersionMaps(Key, V)
    BY DEF Tracked
  <1>2. /\ next \in VersionMaps(Key, V)
        /\ \A i \in Places(next[k]) :
             i \in Nat /\ i + 1 \in Places(m[k]) /\ next[k][i] = m[k][i + 1]
        /\ \A j \in Key : Stored(next[j]) = Stored(m[j])
        /\ \A j \in Key \ {k} : next[j] = m[j]
    BY <1>1, MapTail
  <1>3. \A i \in Places(next[k]) : i \in Nat \ {0} /\ i + 1 # 0
    BY <1>2, MapEnds
  <1>4. Tracked(Key, V, next, w)
    BY <1>2 DEF Tracked
  <1> QED  BY <1>2, <1>3, <1>4 DEF Views, View

(* After a restart only the stored versions can be seen. *)
LEMMA ViewsRestart ==
  ASSUME NEW Key, NEW V, NEW m, NEW w, Tracked(Key, V, m, w), NEW idle,
         idle.pc = "idle"
  PROVE  LET next == Relisted(m, Key)
         IN  /\ Tracked(Key, V, next, idle)
             /\ \A k \in Key : /\ Views(next, idle, k) = {1}
                               /\ View(next, idle, k, 1) = View(m, w, k, Len(m[k]))
                               /\ Stored(next[k]) = Stored(m[k])
  <1> DEFINE next == Relisted(m, Key)
  <1>1. m \in VersionMaps(Key, V)
    BY DEF Tracked
  <1>2. /\ next \in VersionMaps(Key, V)
        /\ \A k \in Key : /\ Places(next[k]) = {1}
                          /\ next[k][1] = Stored(m[k])
                          /\ Stored(next[k]) = Stored(m[k])
    BY <1>1, MapRestart
  <1>3. \A k \in Key : View(m, w, k, Len(m[k])) = Stored(m[k])
    BY ViewType
  <1>4. Tracked(Key, V, next, idle)
    BY <1>2 DEF Tracked
  <1> QED  BY <1>2, <1>3, <1>4 DEF Views, View, Busy

-----------------------------------------------------------------------------
(* Changes that let nobody see anything new *)

(* What u sees in next is what w sees in m, or less, in the same order. *)
SeesNoMore(m, w, next, u, Key) ==
  \A k \in Key :
    /\ Stored(next[k]) = Stored(m[k])
    /\ \A i, j \in Views(next, u, k) : \E a, b \in Views(m, w, k) :
         /\ i <= j => a <= b
         /\ View(next, u, k, i) = View(m, w, k, a)
         /\ View(next, u, k, j) = View(m, w, k, b)

(* The lineage stays. *)
LEMMA LineageFewer ==
  ASSUME NEW Key, NEW V, NEW m, NEW w, Tracked(Key, V, m, w), NEW next, NEW u,
         NEW last \in Nat, NEW last2 \in Nat, last <= last2,
         SeesNoMore(m, w, next, u, Key), Lineage(m, w, Key, last)
  PROVE  Lineage(next, u, Key, last2)
  <1>1. \A k \in Key : \A i \in Views(next, u, k) : \E a \in Views(m, w, k) :
          View(next, u, k, i) = View(m, w, k, a)
    BY DEF SeesNoMore
  <1>2. Issued(next, u, Key, last2)
    <2> SUFFICES ASSUME NEW k \in Key, NEW i \in Views(next, u, k),
                        View(next, u, k, i) # Absent
                 PROVE  View(next, u, k, i).uid <= last2
      BY DEF Issued
    <2>1. PICK a \in Views(m, w, k) : View(next, u, k, i) = View(m, w, k, a)
      BY <1>1
    <2>2. View(m, w, k, a).uid \in Nat /\ View(m, w, k, a).uid <= last
      BY <2>1, ViewType DEF Lineage, Issued
    <2> QED  BY <2>1, <2>2
  <1>3. Ordered(next, u, Key)
    BY DEF SeesNoMore, Lineage, Ordered
  <1>4. ActiveIsStored(next, u, Key)
    BY <1>1 DEF SeesNoMore, Lineage, ActiveIsStored
  <1>5. Distinct(next, u, Key)
    BY <1>1 DEF Lineage, Distinct
  <1> QED  BY <1>2, <1>3, <1>4, <1>5 DEF Lineage

(* So do the targets, whatever is moved or removed besides. *)
LEMMA TargetsFewer ==
  ASSUME NEW Key, NEW V, NEW m, NEW w, Tracked(Key, V, m, w), NEW next, NEW u,
         NEW T, NEW moved, NEW moved2, moved \subseteq moved2,
         NEW P, NEW owner, NEW owner2,
         \A p \in P : owner2[p] \in {owner[p], Absent}, Absent \notin Nat,
         SeesNoMore(m, w, next, u, Key)
  PROVE  /\ TargetsAgree(m, w, Key, T, moved)
              => TargetsAgree(next, u, Key, T, moved2)
         /\ MadeAtTarget(m, w, Key, T, moved, P, owner)
              => MadeAtTarget(next, u, Key, T, moved2, P, owner2)
  <1>1. TargetsAgree(m, w, Key, T, moved) => TargetsAgree(next, u, Key, T, moved2)
    BY DEF SeesNoMore, TargetsAgree
  <1>2. ASSUME MadeAtTarget(m, w, Key, T, moved, P, owner)
        PROVE  MadeAtTarget(next, u, Key, T, moved2, P, owner2)
    <2> SUFFICES ASSUME NEW k \in Key, NEW i \in Views(next, u, k), NEW p \in P,
                        View(next, u, k, i) # Absent,
                        View(next, u, k, i).uid \notin moved2,
                        owner2[p] = View(next, u, k, i).uid
                 PROVE  p = T[View(next, u, k, i).spec]
      BY DEF MadeAtTarget
    <2>1. PICK a \in Views(m, w, k) : View(next, u, k, i) = View(m, w, k, a)
      BY DEF SeesNoMore
    <2>2. View(m, w, k, a).uid \in Nat
      BY <2>1, ViewType
    <2>3. owner[p] = View(m, w, k, a).uid
      BY <2>1, <2>2
    <2> QED  BY <1>2, <2>1, <2>3 DEF MadeAtTarget
  <1> QED  BY <1>1, <1>2

(* Reconcile w goes on, as u, with its copy, or it ends. *)
Follows(w, u) ==
  u.pc # "idle" => w.pc # "idle" /\ u.key = w.key /\ u.item = w.item

(* A Reconcile that goes on sees what it saw, and one that ends less. *)
LEMMA FewerFollow ==
  ASSUME NEW Key, NEW V, NEW m, NEW w, NEW u, Tracked(Key, V, m, w), Follows(w, u)
  PROVE  SeesNoMore(m, w, m, u, Key) /\ Tracked(Key, V, m, u)
  <1>1. Tracked(Key, V, m, u)
    BY DEF Tracked, Follows
  <1>2. \A k \in Key : \A i \in Views(m, u, k) :
          i \in Views(m, w, k) /\ View(m, u, k, i) = View(m, w, k, i)
    <2>1. \A k \in Key : \A i \in Places(m[k]) : i # 0
      BY MapEnds DEF Tracked
    <2> QED  BY <2>1 DEF Views, View, Busy, Follows
  <1> QED  BY <1>1, <1>2 DEF SeesNoMore

(* Reconcile starts with the cached copy. *)
LEMMA FewerBegin ==
  ASSUME NEW Key, NEW V, NEW m, NEW w, NEW u, Tracked(Key, V, m, w),
         w.pc = "idle", NEW k \in Key, u.key = k,
         u.item = Cached(m[k]), Cached(m[k]) # Absent
  PROVE  SeesNoMore(m, w, m, u, Key) /\ Tracked(Key, V, m, u)
  <1>1. /\ Cached(m[k]) \in V /\ 1 \in Views(m, w, k)
        /\ View(m, w, k, 1) = Cached(m[k])
    BY ViewType
  <1>2. Tracked(Key, V, m, u)
    BY <1>1 DEF Tracked
  <1>3. \A l \in Key : \A i \in Views(m, u, l) :
          \/ /\ i \in Views(m, w, l) /\ i \in Nat /\ i >= 1
             /\ View(m, u, l, i) = View(m, w, l, i)
          \/ i = 0 /\ l = k /\ View(m, u, l, i) = View(m, w, k, 1)
    <2>1. \A l \in Key : \A i \in Places(m[l]) : i \in Nat /\ i >= 1
      BY MapEnds DEF Tracked
    <2> QED  BY <1>1, <2>1 DEF Views, View, Busy
  <1> QED  BY <1>1, <1>2, <1>3 DEF SeesNoMore

(* A watch event is delivered. *)
LEMMA FewerDeliver ==
  ASSUME NEW Key, NEW V, NEW m, NEW w, Tracked(Key, V, m, w), NEW k \in Key,
         Len(m[k]) > 1
  PROVE  SeesNoMore(m, w, Delivered(m, k), w, Key)
         /\ Tracked(Key, V, Delivered(m, k), w)
  <1> DEFINE next == Delivered(m, k)
  <1>1. /\ Tracked(Key, V, next, w)
        /\ \A i \in Views(next, w, k) :
             \/ /\ i = 0 /\ 0 \in Views(m, w, k)
                /\ View(next, w, k, i) = View(m, w, k, 0)
             \/ /\ i \in Nat \ {0} /\ i + 1 \in Views(m, w, k)
                /\ View(next, w, k, i) = View(m, w, k, i + 1)
        /\ \A l \in Key \ {k} :
             /\ Views(next, w, l) = Views(m, w, l)
             /\ \A i \in Views(m, w, l) : View(next, w, l, i) = View(m, w, l, i)
        /\ \A l \in Key : Stored(next[l]) = Stored(m[l])
    BY ViewsTail
  <1> HIDE DEF next
  <1>2. ASSUME NEW i \in Views(next, w, k), NEW j \in Views(next, w, k)
        PROVE  \E a, b \in Views(m, w, k) :
                 /\ i <= j => a <= b
                 /\ View(next, w, k, i) = View(m, w, k, a)
                 /\ View(next, w, k, j) = View(m, w, k, b)
    <2> DEFINE A(x) == IF x = 0 THEN 0 ELSE x + 1
    <2>1. /\ A(i) \in Views(m, w, k) /\ View(next, w, k, i) = View(m, w, k, A(i))
          /\ A(j) \in Views(m, w, k) /\ View(next, w, k, j) = View(m, w, k, A(j))
          /\ i <= j => A(i) <= A(j)
      BY <1>1
    <2> HIDE DEF A
    <2> QED  BY <2>1
  <1>3. \A l \in Key : \A i, j \in Views(next, w, l) : \E a, b \in Views(m, w, l) :
          /\ i <= j => a <= b
          /\ View(next, w, l, i) = View(m, w, l, a)
          /\ View(next, w, l, j) = View(m, w, l, b)
    BY <1>1, <1>2
  <1> QED  BY <1>1, <1>3 DEF SeesNoMore, next

(* The operator restarts. *)
LEMMA FewerRestart ==
  ASSUME NEW Key, NEW V, NEW m, NEW w, Tracked(Key, V, m, w), NEW idle,
         idle.pc = "idle"
  PROVE  SeesNoMore(m, w, Relisted(m, Key), idle, Key)
         /\ Tracked(Key, V, Relisted(m, Key), idle)
  <1> DEFINE next == Relisted(m, Key)
  <1>1. /\ Tracked(Key, V, next, idle)
        /\ \A k \in Key : /\ Views(next, idle, k) = {1}
                          /\ View(next, idle, k, 1) = View(m, w, k, Len(m[k]))
                          /\ Stored(next[k]) = Stored(m[k])
    BY ViewsRestart
  <1>2. \A k \in Key : Len(m[k]) \in Views(m, w, k) /\ Len(m[k]) \in Nat
    BY ViewType
  <1> HIDE DEF next
  <1> QED  BY <1>1, <1>2 DEF SeesNoMore, next

-----------------------------------------------------------------------------
(* Writes *)

(* A write keeps the lineage when the new version may follow every copy     *)
(* that can be seen, and stands for those that lead Reconcile to make       *)
(* something.                                                               *)
LEMMA LineageAppend ==
  ASSUME NEW Key, NEW V, NEW m, NEW w, Tracked(Key, V, m, w), NEW k \in Key,
         NEW x \in V, NEW last \in Nat, NEW last2 \in Nat, last <= last2,
         Lineage(m, w, Key, last),
         x # Absent => x.uid <= last2,
         \A i \in Views(m, w, k) :
           /\ Precedes(View(m, w, k, i), x)
           /\ Active(View(m, w, k, i)) => StillStored(x, View(m, w, k, i)),
         \A l \in Key \ {k} : \A i \in Views(m, w, l) :
           View(m, w, l, i) # Absent /\ x # Absent => View(m, w, l, i).uid # x.uid
  PROVE  Lineage(Appended(m, k, x), w, Key, last2)
  <1> DEFINE next == Appended(m, k, x)
             n == Len(m[k]) + 1
  <1>1. /\ Views(next, w, k) = Views(m, w, k) \cup {n}
        /\ \A i \in Views(m, w, k) : i < n /\ View(next, w, k, i) = View(m, w, k, i)
        /\ View(next, w, k, n) = x
        /\ Stored(next[k]) = x
        /\ \A l \in Key \ {k} :
             /\ Views(next, w, l) = Views(m, w, l)
             /\ \A i \in Views(m, w, l) : View(next, w, l, i) = View(m, w, l, i)
             /\ Stored(next[l]) = Stored(m[l])
    BY ViewsAppend
  <1>2. /\ \A l \in Key : \A i \in Views(m, w, l) :
             i \in Nat /\ (View(m, w, l, i) # Absent => View(m, w, l, i).uid \in Nat)
        /\ n \in Nat /\ (x # Absent => x.uid \in Nat /\ x.gen \in Nat)
    <2>1. Versioned(V)
      BY DEF Tracked
    <2> QED  BY <2>1, ViewType DEF Versioned
  <1> HIDE DEF next, n
  <1>3. Issued(next, w, Key, last2)
    BY <1>1, <1>2 DEF Issued, Lineage
  <1>4. Ordered(next, w, Key)
    <2>1. Precedes(x, x)
      BY <1>2 DEF Precedes
    <2>2. \A i \in Views(m, w, k) : ~(n <= i)
      BY <1>1, <1>2
    <2>3. \A i, j \in Views(next, w, k) :
            i <= j => Precedes(View(next, w, k, i), View(next, w, k, j))
      BY <1>1, <2>1, <2>2 DEF Lineage, Ordered
    <2>4. \A l \in Key \ {k} : \A i, j \in Views(next, w, l) :
            i <= j => Precedes(View(next, w, l, i), View(next, w, l, j))
      BY <1>1 DEF Lineage, Ordered
    <2> QED  BY <2>3, <2>4 DEF Ordered
  <1>5. ActiveIsStored(next, w, Key)
    <2> SUFFICES ASSUME NEW l \in Key, NEW i \in Views(next, w, l),
                        Active(View(next, w, l, i))
                 PROVE  StillStored(Stored(next[l]), View(next, w, l, i))
      BY DEF ActiveIsStored
    <2>1. CASE l # k
      BY <1>1, <2>1 DEF Lineage, ActiveIsStored
    <2>2. CASE l = k /\ i = n
      BY <1>1, <2>2 DEF StillStored, Active
    <2>3. CASE l = k /\ i # n
      BY <1>1, <2>3
    <2> QED  BY <2>1, <2>2, <2>3
  <1>6. Distinct(next, w, Key)
    <2> SUFFICES ASSUME NEW j \in Key, NEW l \in Key, j # l,
                        NEW a \in Views(next, w, j), NEW b \in Views(next, w, l),
                        View(next, w, j, a) # Absent, View(next, w, l, b) # Absent
                 PROVE  View(next, w, j, a).uid # View(next, w, l, b).uid
      BY DEF Distinct
    <2>1. CASE j = k
      BY <1>1, <2>1 DEF Lineage, Distinct
    <2>2. CASE l = k
      BY <1>1, <2>2 DEF Lineage, Distinct
    <2>3. CASE j # k /\ l # k
      BY <1>1, <2>3 DEF Lineage, Distinct
    <2> QED  BY <2>1, <2>2, <2>3
  <1> QED  BY <1>3, <1>4, <1>5, <1>6 DEF Lineage, next

(* A write keeps the targets where they are for what stays of them. *)
LEMMA TargetsAppend ==
  ASSUME NEW Key, NEW V, NEW m, NEW w, Tracked(Key, V, m, w), NEW k \in Key,
         NEW x \in V, NEW T, NEW moved, NEW moved2, moved \subseteq moved2,
         NEW P, NEW owner,
         TargetsAgree(m, w, Key, T, moved),
         MadeAtTarget(m, w, Key, T, moved, P, owner),
         x # Absent /\ x.uid \notin moved2 =>
           /\ \A i \in Views(m, w, k) :
                LET v == View(m, w, k, i)
                IN  v # Absent /\ v.uid = x.uid => T[v.spec] = T[x.spec]
           /\ \A p \in P : owner[p] = x.uid => p = T[x.spec]
  PROVE  /\ TargetsAgree(Appended(m, k, x), w, Key, T, moved2)
         /\ MadeAtTarget(Appended(m, k, x), w, Key, T, moved2, P, owner)
  <1> DEFINE next == Appended(m, k, x)
             n == Len(m[k]) + 1
  <1>1. /\ Views(next, w, k) = Views(m, w, k) \cup {n}
        /\ \A i \in Views(m, w, k) : i < n /\ View(next, w, k, i) = View(m, w, k, i)
        /\ View(next, w, k, n) = x
        /\ \A l \in Key \ {k} :
             /\ Views(next, w, l) = Views(m, w, l)
             /\ \A i \in Views(m, w, l) : View(next, w, l, i) = View(m, w, l, i)
    BY ViewsAppend
  <1> HIDE DEF next, n
  <1>2. TargetsAgree(next, w, Key, T, moved2)
    <2>1. \A i, j \in Views(next, w, k) :
            LET v == View(next, w, k, i)
                y == View(next, w, k, j)
            IN  v # Absent /\ y # Absent /\ v.uid = y.uid /\ v.uid \notin moved2
                  => T[v.spec] = T[y.spec]
      BY <1>1 DEF TargetsAgree
    <2>2. \A l \in Key \ {k} : \A i, j \in Views(next, w, l) :
            LET v == View(next, w, l, i)
                y == View(next, w, l, j)
            IN  v # Absent /\ y # Absent /\ v.uid = y.uid /\ v.uid \notin moved2
                  => T[v.spec] = T[y.spec]
      BY <1>1 DEF TargetsAgree
    <2> QED  BY <2>1, <2>2 DEF TargetsAgree
  <1>3. MadeAtTarget(next, w, Key, T, moved2, P, owner)
    BY <1>1 DEF MadeAtTarget
  <1> QED  BY <1>2, <1>3 DEF next

-----------------------------------------------------------------------------
(* The four kinds of writes *)

(* A version that continues the stored one: a status update, an edit, or    *)
(* the mark of a deletion that the finalizer holds up.                      *)
Continuation(o, x) ==
  /\ o # Absent /\ x # Absent /\ x.uid = o.uid
  /\ o.gen <= x.gen
  /\ o.gen = x.gen => o.spec = x.spec /\ o.deleting = x.deleting
  /\ o.deleting => x.deleting
  /\ o.fins = {} <=> x.fins = {}

(* The stored version gets its finalizer. *)
Finalized(o, x) ==
  /\ o # Absent /\ x # Absent /\ x.uid = o.uid
  /\ x.gen = o.gen /\ x.spec = o.spec /\ x.deleting = o.deleting
  /\ x.fins # {}

(* The incarnations that are stored, and that are stored with a finalizer *)
StoredUid(m, Key, u) ==
  \E k \in Key : Stored(m[k]) # Absent /\ Stored(m[k]).uid = u

HeldUid(m, Key, u) ==
  \E k \in Key : /\ Stored(m[k]) # Absent /\ Stored(m[k]).uid = u
                 /\ Stored(m[k]).fins # {}

(* How a view and the stored version relate. *)
LEMMA ViewStored ==
  ASSUME NEW Key, NEW V, NEW m, NEW w, Tracked(Key, V, m, w), NEW last,
         Lineage(m, w, Key, last), NEW k \in Key, NEW i \in Views(m, w, k)
  PROVE  /\ Precedes(View(m, w, k, i), Stored(m[k]))
         /\ Active(View(m, w, k, i)) => /\ StillStored(Stored(m[k]), View(m, w, k, i))
                                        /\ Stored(m[k]).fins # {}
         /\ Busy(w, k) => Precedes(w.item, View(m, w, k, i))
  <1>1. /\ Len(m[k]) \in Views(m, w, k) /\ View(m, w, k, Len(m[k])) = Stored(m[k])
        /\ i \in Nat /\ i <= Len(m[k])
        /\ Busy(w, k) => 0 \in Views(m, w, k) /\ View(m, w, k, 0) = w.item
    BY ViewType
  <1>2. Precedes(View(m, w, k, i), Stored(m[k]))
    BY <1>1 DEF Lineage, Ordered
  <1>3. Busy(w, k) => Precedes(w.item, View(m, w, k, i))
    BY <1>1 DEF Lineage, Ordered
  <1>4. Active(View(m, w, k, i)) => StillStored(Stored(m[k]), View(m, w, k, i))
    BY DEF Lineage, ActiveIsStored
  <1> QED  BY <1>2, <1>3, <1>4 DEF Precedes, Active, StillStored

(* No two names have one incarnation. *)
LEMMA ViewDistinct ==
  ASSUME NEW Key, NEW V, NEW m, NEW w, Tracked(Key, V, m, w), NEW last,
         Lineage(m, w, Key, last), NEW k \in Key, NEW l \in Key \ {k},
         NEW i \in Views(m, w, l), View(m, w, l, i) # Absent
  PROVE  /\ Stored(m[k]) # Absent => Stored(m[k]).uid # View(m, w, l, i).uid
         /\ Busy(w, k) => w.item.uid # View(m, w, l, i).uid
  <1>1. /\ Len(m[k]) \in Views(m, w, k) /\ View(m, w, k, Len(m[k])) = Stored(m[k])
        /\ Busy(w, k) => /\ 0 \in Views(m, w, k) /\ View(m, w, k, 0) = w.item
                         /\ w.item # Absent
    BY ViewType
  <1> QED  BY <1>1 DEF Lineage, Distinct

(* A write of the first kind keeps the lineage and who is held. *)
LEMMA LineageContinue ==
  ASSUME NEW Key, NEW V, NEW m, NEW w, Tracked(Key, V, m, w), NEW k \in Key,
         NEW x \in V, NEW last \in Nat, Lineage(m, w, Key, last),
         Continuation(Stored(m[k]), x)
  PROVE  /\ Lineage(Appended(m, k, x), w, Key, last)
         /\ \A u : /\ HeldUid(Appended(m, k, x), Key, u) <=> HeldUid(m, Key, u)
                   /\ StoredUid(Appended(m, k, x), Key, u) <=> StoredUid(m, Key, u)
  <1> DEFINE o == Stored(m[k])
  <1>1. /\ Stored(Appended(m, k, x)[k]) = x
        /\ \A l \in Key \ {k} : Stored(Appended(m, k, x)[l]) = Stored(m[l])
    BY ViewsAppend
  <1>2. Versioned(V) /\ o \in V
    BY ViewType DEF Tracked
  <1>3. o # Absent /\ o.uid \in Nat /\ o.gen \in Nat /\ x.uid \in Nat /\ x.gen \in Nat
    BY <1>2 DEF Versioned, Continuation
  <1>4. x.uid <= last
    <2>1. Len(m[k]) \in Views(m, w, k) /\ View(m, w, k, Len(m[k])) = o
      BY ViewType
    <2> QED  BY <1>3, <2>1 DEF Lineage, Issued, Continuation
  <1>5. ASSUME NEW i \in Views(m, w, k)
        PROVE  /\ Precedes(View(m, w, k, i), x)
               /\ Active(View(m, w, k, i)) => StillStored(x, View(m, w, k, i))
    <2>1. /\ Precedes(View(m, w, k, i), o)
          /\ Active(View(m, w, k, i)) => StillStored(o, View(m, w, k, i))
          /\ View(m, w, k, i) # Absent =>
               View(m, w, k, i).uid \in Nat /\ View(m, w, k, i).gen \in Nat
      BY <1>5, ViewStored, ViewType
    <2> HIDE DEF o
    <2> QED  BY <1>3, <2>1 DEF Precedes, StillStored, Continuation, o
  <1>6. \A l \in Key \ {k} : \A i \in Views(m, w, l) :
          View(m, w, l, i) # Absent /\ x # Absent => View(m, w, l, i).uid # x.uid
    BY <1>3, ViewDistinct DEF Continuation
  <1>7. Lineage(Appended(m, k, x), w, Key, last)
    BY <1>4, <1>5, <1>6, LineageAppend
  <1> QED  BY <1>1, <1>7 DEF HeldUid, StoredUid, Continuation

(* Reconcile adds the finalizer to the version it holds: nobody sees an     *)
(* older incarnation any more.                                              *)
LEMMA LineageFinalize ==
  ASSUME NEW Key, NEW V, NEW m, NEW w, Tracked(Key, V, m, w), NEW k \in Key,
         NEW x \in V, NEW last \in Nat, Lineage(m, w, Key, last),
         Busy(w, k), w.item = Stored(m[k]), Finalized(Stored(m[k]), x)
  PROVE  /\ Lineage(Appended(m, k, x), w, Key, last)
         /\ \A u : /\ HeldUid(Appended(m, k, x), Key, u)
                        <=> HeldUid(m, Key, u) \/ u = x.uid
                   /\ StoredUid(Appended(m, k, x), Key, u) <=> StoredUid(m, Key, u)
  <1> DEFINE o == Stored(m[k])
  <1>1. /\ Stored(Appended(m, k, x)[k]) = x
        /\ \A l \in Key \ {k} : Stored(Appended(m, k, x)[l]) = Stored(m[l])
    BY ViewsAppend
  <1>2. Versioned(V) /\ o \in V
    BY ViewType DEF Tracked
  <1>3. o # Absent /\ o.uid \in Nat /\ o.gen \in Nat /\ x.uid \in Nat /\ x.gen \in Nat
    BY <1>2 DEF Versioned, Finalized
  <1>4. x.uid <= last
    <2>1. Len(m[k]) \in Views(m, w, k) /\ View(m, w, k, Len(m[k])) = o
      BY ViewType
    <2> QED  BY <1>3, <2>1 DEF Lineage, Issued, Finalized
  <1>5. ASSUME NEW i \in Views(m, w, k)
        PROVE  /\ Precedes(View(m, w, k, i), x)
               /\ Active(View(m, w, k, i)) => StillStored(x, View(m, w, k, i))
    <2>1. /\ Precedes(View(m, w, k, i), o) /\ Precedes(o, View(m, w, k, i))
          /\ Active(View(m, w, k, i)) => StillStored(o, View(m, w, k, i))
          /\ View(m, w, k, i) # Absent =>
               View(m, w, k, i).uid \in Nat /\ View(m, w, k, i).gen \in Nat
      BY <1>5, ViewStored, ViewType
    <2> HIDE DEF o
    <2>2. View(m, w, k, i) # Absent => View(m, w, k, i).uid = o.uid
      BY <1>3, <2>1 DEF Precedes
    <2> QED  BY <1>3, <2>1, <2>2 DEF Precedes, StillStored, Finalized, o
  <1>6. \A l \in Key \ {k} : \A i \in Views(m, w, l) :
          View(m, w, l, i) # Absent /\ x # Absent => View(m, w, l, i).uid # x.uid
    BY <1>3, ViewDistinct DEF Finalized
  <1>7. Lineage(Appended(m, k, x), w, Key, last)
    BY <1>4, <1>5, <1>6, LineageAppend
  <1> QED  BY <1>1, <1>7 DEF HeldUid, StoredUid, Finalized

(* The stored version goes away: one without a finalizer, or one whose      *)
(* finalizer a Reconcile removes that holds a deleting copy of it.          *)
LEMMA LineageVanish ==
  ASSUME NEW Key, NEW V, NEW m, NEW w, Tracked(Key, V, m, w), NEW k \in Key,
         Absent \in V, NEW last \in Nat, Lineage(m, w, Key, last),
         Stored(m[k]) # Absent,
         \/ Stored(m[k]).fins = {}
         \/ Busy(w, k) /\ w.item.deleting /\ w.item.uid = Stored(m[k]).uid
  PROVE  /\ Lineage(Appended(m, k, Absent), w, Key, last)
         /\ \A u : /\ HeldUid(Appended(m, k, Absent), Key, u)
                        <=> HeldUid(m, Key, u) /\ u # Stored(m[k]).uid
                   /\ StoredUid(Appended(m, k, Absent), Key, u)
                        <=> StoredUid(m, Key, u) /\ u # Stored(m[k]).uid
  <1> DEFINE o == Stored(m[k])
  <1>1. /\ Stored(Appended(m, k, Absent)[k]) = Absent
        /\ \A l \in Key \ {k} : Stored(Appended(m, k, Absent)[l]) = Stored(m[l])
    BY ViewsAppend
  <1>2. ASSUME NEW i \in Views(m, w, k)
        PROVE  ~Active(View(m, w, k, i))
    <2>1. /\ Active(View(m, w, k, i)) =>
               StillStored(o, View(m, w, k, i)) /\ o.fins # {}
          /\ Busy(w, k) => Precedes(w.item, View(m, w, k, i)) /\ w.item # Absent
      BY <1>2, ViewStored, ViewType
    <2> QED  BY <2>1 DEF Precedes, StillStored, Active
  <1>3. Lineage(Appended(m, k, Absent), w, Key, last)
    BY <1>2, LineageAppend DEF Precedes
  <1>4. \A l \in Key \ {k} : Stored(m[l]) # Absent => Stored(m[l]).uid # o.uid
    <2>1. \A l \in Key : /\ Len(m[l]) \in Views(m, w, l)
                         /\ View(m, w, l, Len(m[l])) = Stored(m[l])
      BY ViewType
    <2> QED  BY <2>1, ViewDistinct
  <1> QED  BY <1>1, <1>3, <1>4 DEF HeldUid, StoredUid

(* A user creates the object anew: nobody acts on what was there before.    *)
LEMMA LineageCreate ==
  ASSUME NEW Key, NEW V, NEW m, NEW w, Tracked(Key, V, m, w), NEW k \in Key,
         NEW x \in V, NEW last \in Nat, Lineage(m, w, Key, last),
         Stored(m[k]) = Absent,
         x # Absent, x.uid = last + 1, x.fins = {}
  PROVE  /\ Lineage(Appended(m, k, x), w, Key, last + 1)
         /\ \A u : /\ HeldUid(Appended(m, k, x), Key, u) <=> HeldUid(m, Key, u)
                   /\ StoredUid(Appended(m, k, x), Key, u)
                        <=> StoredUid(m, Key, u) \/ u = last + 1
  <1>1. /\ Stored(Appended(m, k, x)[k]) = x
        /\ \A l \in Key \ {k} : Stored(Appended(m, k, x)[l]) = Stored(m[l])
    BY ViewsAppend
  <1>2. ASSUME NEW l \in Key, NEW i \in Views(m, w, l), View(m, w, l, i) # Absent
        PROVE  View(m, w, l, i).uid \in Nat /\ View(m, w, l, i).uid <= last
    BY <1>2, ViewType DEF Lineage, Issued
  <1>3. ASSUME NEW i \in Views(m, w, k)
        PROVE  /\ Precedes(View(m, w, k, i), x)
               /\ Active(View(m, w, k, i)) => StillStored(x, View(m, w, k, i))
    <2>1. ~Active(View(m, w, k, i))
      BY <1>3, ViewStored DEF StillStored
    <2> QED  BY <1>2, <1>3, <2>1 DEF Precedes
  <1>4. \A l \in Key \ {k} : \A i \in Views(m, w, l) :
          View(m, w, l, i) # Absent /\ x # Absent => View(m, w, l, i).uid # x.uid
    BY <1>2
  <1>5. Lineage(Appended(m, k, x), w, Key, last + 1)
    BY <1>3, <1>4, LineageAppend
  <1> QED  BY <1>1, <1>5 DEF HeldUid, StoredUid

(* What writes do to the targets: a version of the stored incarnation says  *)
(* what the others say, unless the write moves it.                          *)
LEMMA TargetsContinue ==
  ASSUME NEW Key, NEW V, NEW m, NEW w, Tracked(Key, V, m, w), NEW k \in Key,
         NEW x \in V, NEW T, NEW moved, NEW moved2, moved \subseteq moved2,
         NEW P, NEW owner,
         TargetsAgree(m, w, Key, T, moved),
         MadeAtTarget(m, w, Key, T, moved, P, owner),
         x # Absent => /\ Stored(m[k]) # Absent /\ x.uid = Stored(m[k]).uid
                       /\ x.uid \notin moved2 => T[x.spec] = T[Stored(m[k]).spec]
  PROVE  /\ TargetsAgree(Appended(m, k, x), w, Key, T, moved2)
         /\ MadeAtTarget(Appended(m, k, x), w, Key, T, moved2, P, owner)
  <1>1. Len(m[k]) \in Views(m, w, k) /\ View(m, w, k, Len(m[k])) = Stored(m[k])
    BY ViewType
  <1>2. x # Absent /\ x.uid \notin moved2 =>
           /\ \A i \in Views(m, w, k) :
                LET v == View(m, w, k, i)
                IN  v # Absent /\ v.uid = x.uid => T[v.spec] = T[x.spec]
           /\ \A p \in P : owner[p] = x.uid => p = T[x.spec]
    BY <1>1 DEF TargetsAgree, MadeAtTarget
  <1> QED  BY <1>2, TargetsAppend

(* A new incarnation has made nothing. *)
LEMMA TargetsCreate ==
  ASSUME NEW Key, NEW V, NEW m, NEW w, Tracked(Key, V, m, w), NEW k \in Key,
         NEW x \in V, NEW last \in Nat, Lineage(m, w, Key, last),
         NEW T, NEW moved, NEW P, NEW owner,
         TargetsAgree(m, w, Key, T, moved),
         MadeAtTarget(m, w, Key, T, moved, P, owner),
         x.uid = last + 1, \A p \in P : owner[p] # last + 1
  PROVE  /\ TargetsAgree(Appended(m, k, x), w, Key, T, moved)
         /\ MadeAtTarget(Appended(m, k, x), w, Key, T, moved, P, owner)
  <1>1. \A i \in Views(m, w, k) :
          View(m, w, k, i) # Absent => View(m, w, k, i).uid # x.uid
    <2>1. \A i \in Views(m, w, k) : View(m, w, k, i) # Absent =>
            View(m, w, k, i).uid \in Nat /\ View(m, w, k, i).uid <= last
      BY ViewType DEF Lineage, Issued
    <2> QED  BY <2>1
  <1> QED  BY <1>1, TargetsAppend

(* What Reconcile makes where its copy says is where every copy says. *)
LEMMA TargetsMake ==
  ASSUME NEW Key, NEW V, NEW m, NEW w, Tracked(Key, V, m, w), NEW last,
         Lineage(m, w, Key, last), NEW k \in Key, Busy(w, k),
         NEW T, NEW moved, NEW P, NEW owner, NEW owner2,
         TargetsAgree(m, w, Key, T, moved),
         MadeAtTarget(m, w, Key, T, moved, P, owner),
         \A p \in P : \/ owner2[p] = owner[p]
                      \/ /\ owner2[p] = w.item.uid
                         /\ w.item.uid \notin moved => p = T[w.item.spec]
  PROVE  MadeAtTarget(m, w, Key, T, moved, P, owner2)
  <1> SUFFICES ASSUME NEW l \in Key, NEW i \in Views(m, w, l), NEW p \in P,
                      View(m, w, l, i) # Absent,
                      View(m, w, l, i).uid \notin moved,
                      owner2[p] = View(m, w, l, i).uid
               PROVE  p = T[View(m, w, l, i).spec]
    BY DEF MadeAtTarget
  <1>1. CASE owner2[p] = owner[p]
    <2>1. owner[p] = View(m, w, l, i).uid
      BY <1>1
    <2> QED  BY <2>1 DEF MadeAtTarget
  <1>2. CASE /\ owner2[p] = w.item.uid
             /\ w.item.uid \notin moved => p = T[w.item.spec]
    <2>1. l = k
      BY <1>2, ViewDistinct, ZenonT(60)
    <2>2. 0 \in Views(m, w, k) /\ View(m, w, k, 0) = w.item /\ w.item # Absent
      BY ViewType
    <2>3. w.item.uid = View(m, w, l, i).uid
      BY <1>2
    <2>4. T[w.item.spec] = T[View(m, w, l, i).spec]
      BY <2>1, <2>2, <2>3 DEF TargetsAgree
    <2> QED  BY <1>2, <2>3, <2>4
  <1> QED  BY <1>1, <1>2

(* Nothing is seen of an object that is not there. *)
LEMMA AbsentViews ==
  ASSUME NEW m, NEW w, w.pc = "idle", NEW k, Len(m[k]) = 1, m[k][1] = Absent
  PROVE  \A i \in Views(m, w, k) : View(m, w, k, i) = Absent
  <1> DEFINE s == m[k]
  <1>1. Len(s) = 1 /\ s[1] = Absent
    OBVIOUS
  <1> HIDE DEF s
  <1>2. Places(s) = {1}
    BY <1>1 DEF Places
  <1> QED  BY <1>1, <1>2 DEF Views, View, Busy, s

(* At first no object is stored and no Reconcile runs. *)
LEMMA LineageInit ==
  ASSUME NEW Key, NEW V, Versioned(V), Absent \in V, NEW m, NEW w,
         w.pc = "idle", m = [k \in Key |-> <<Absent>>], NEW T, NEW P, NEW owner
  PROVE  /\ Tracked(Key, V, m, w)
         /\ \A k \in Key : Stored(m[k]) = Absent
         /\ \A last : Lineage(m, w, Key, last)
         /\ \A moved : /\ TargetsAgree(m, w, Key, T, moved)
                       /\ MadeAtTarget(m, w, Key, T, moved, P, owner)
  <1>1. \A k \in Key : /\ m[k] \in Seq(V) /\ m[k] # <<>>
                       /\ Len(m[k]) = 1 /\ m[k][1] = Absent
    BY OneVersion
  <1>2. m \in VersionMaps(Key, V)
    BY <1>1 DEF VersionMaps
  <1>3. Tracked(Key, V, m, w)
    BY <1>2 DEF Tracked
  <1>4. \A k \in Key : \A i \in Views(m, w, k) : View(m, w, k, i) = Absent
    BY <1>1, AbsentViews
  <1>5. \A k \in Key : Stored(m[k]) = Absent
    BY <1>1 DEF Stored
  <1>6. \A last : Lineage(m, w, Key, last)
    BY <1>4 DEF Lineage, Issued, Ordered, ActiveIsStored, Distinct, Precedes, Active
  <1> QED  BY <1>3, <1>4, <1>5, <1>6 DEF TargetsAgree, MadeAtTarget

-----------------------------------------------------------------------------
(* What is said of every copy *)

ViewsIn(m, w, Key, S) ==
  \A k \in Key : \A i \in Views(m, w, k) : View(m, w, k, i) \in S

(* It stays true of fewer copies. *)
LEMMA ViewsInFewer ==
  ASSUME NEW Key, NEW m, NEW w, NEW next, NEW u, NEW S, NEW S2, S \subseteq S2,
         SeesNoMore(m, w, next, u, Key), ViewsIn(m, w, Key, S)
  PROVE  ViewsIn(next, u, Key, S2)
  <1> SUFFICES ASSUME NEW k \in Key, NEW i \in Views(next, u, k)
               PROVE  View(next, u, k, i) \in S2
    BY DEF ViewsIn
  <1>1. PICK a \in Views(m, w, k) : View(next, u, k, i) = View(m, w, k, a)
    BY DEF SeesNoMore
  <1> QED  BY <1>1 DEF ViewsIn

(* A write adds one copy. *)
LEMMA ViewsInAppend ==
  ASSUME NEW Key, NEW V, NEW m, NEW w, Tracked(Key, V, m, w), NEW k \in Key,
         NEW x \in V, NEW S, NEW S2, S \subseteq S2, x \in S2, ViewsIn(m, w, Key, S)
  PROVE  ViewsIn(Appended(m, k, x), w, Key, S2)
  <1> DEFINE next == Appended(m, k, x)
  <1>1. /\ Views(next, w, k) = Views(m, w, k) \cup {Len(m[k]) + 1}
        /\ \A i \in Views(m, w, k) : View(next, w, k, i) = View(m, w, k, i)
        /\ View(next, w, k, Len(m[k]) + 1) = x
        /\ \A l \in Key \ {k} :
             /\ Views(next, w, l) = Views(m, w, l)
             /\ \A i \in Views(m, w, l) : View(next, w, l, i) = View(m, w, l, i)
    BY ViewsAppend
  <1> HIDE DEF next
  <1>2. \A l \in Key : \A i \in Views(m, w, l) : View(m, w, l, i) \in S2
    BY DEF ViewsIn
  <1>3. \A l \in Key : \A i \in Views(next, w, l) : View(next, w, l, i) \in S2
    BY <1>1, <1>2
  <1> QED  BY <1>3 DEF ViewsIn, next

-----------------------------------------------------------------------------
(* All of it together, for a controller that keeps what its objects make at *)
(* the places P                                                             *)

Custody(m, w, Key, last, T, moved, P, owner, S) ==
  /\ Lineage(m, w, Key, last)
  /\ TargetsAgree(m, w, Key, T, moved)
  /\ MadeAtTarget(m, w, Key, T, moved, P, owner)
  /\ ViewsIn(m, w, Key, S)

(* Nobody sees anything new, and things only go. *)
LEMMA CustodyFewer ==
  ASSUME NEW Key, NEW V, NEW m, NEW w, Tracked(Key, V, m, w), NEW next, NEW u,
         SeesNoMore(m, w, next, u, Key), NEW last \in Nat,
         NEW T, NEW moved, NEW moved2, moved \subseteq moved2,
         NEW P, NEW owner, NEW owner2,
         \A p \in P : owner2[p] \in {owner[p], Absent}, Absent \notin Nat,
         NEW S, NEW S2, S \subseteq S2,
         Custody(m, w, Key, last, T, moved, P, owner, S)
  PROVE  /\ Custody(next, u, Key, last, T, moved2, P, owner2, S2)
         /\ \A v : /\ HeldUid(next, Key, v) <=> HeldUid(m, Key, v)
                   /\ StoredUid(next, Key, v) <=> StoredUid(m, Key, v)
  <1>1. /\ Lineage(m, w, Key, last) /\ TargetsAgree(m, w, Key, T, moved)
        /\ MadeAtTarget(m, w, Key, T, moved, P, owner) /\ ViewsIn(m, w, Key, S)
    BY DEF Custody
  <1>2. Lineage(next, u, Key, last)
    BY <1>1, LineageFewer
  <1>3. TargetsAgree(next, u, Key, T, moved2)
        /\ MadeAtTarget(next, u, Key, T, moved2, P, owner2)
    BY <1>1, TargetsFewer
  <1>4. ViewsIn(next, u, Key, S2)
    BY <1>1, ViewsInFewer
  <1>5. \A k \in Key : Stored(next[k]) = Stored(m[k])
    BY DEF SeesNoMore
  <1> QED  BY <1>2, <1>3, <1>4, <1>5 DEF Custody, HeldUid, StoredUid

(* Reconcile goes on or ends after a change. *)
LEMMA CustodyFollow ==
  ASSUME NEW Key, NEW V, NEW m, NEW w, Tracked(Key, V, m, w), NEW u, Follows(w, u),
         NEW last \in Nat, NEW T, NEW moved, NEW P, NEW owner, Absent \notin Nat, NEW S,
         Custody(m, w, Key, last, T, moved, P, owner, S)
  PROVE  Custody(m, u, Key, last, T, moved, P, owner, S)
  <1>1. SeesNoMore(m, w, m, u, Key)
    BY FewerFollow
  <1> QED  BY <1>1, CustodyFewer

(* The stored version is continued. *)
LEMMA CustodyContinue ==
  ASSUME NEW Key, NEW V, NEW m, NEW w, Tracked(Key, V, m, w), NEW u, Follows(w, u),
         NEW k \in Key, NEW x \in V, Continuation(Stored(m[k]), x),
         NEW last \in Nat, NEW T, NEW moved, NEW moved2, moved \subseteq moved2,
         x.uid \notin moved2 => T[x.spec] = T[Stored(m[k]).spec],
         NEW P, NEW owner, Absent \notin Nat,
         NEW S, NEW S2, S \subseteq S2, x \in S2,
         Custody(m, w, Key, last, T, moved, P, owner, S)
  PROVE  /\ Custody(Appended(m, k, x), u, Key, last, T, moved2, P, owner, S2)
         /\ \A v : /\ HeldUid(Appended(m, k, x), Key, v) <=> HeldUid(m, Key, v)
                   /\ StoredUid(Appended(m, k, x), Key, v) <=> StoredUid(m, Key, v)
  <1>1. /\ Lineage(m, w, Key, last) /\ TargetsAgree(m, w, Key, T, moved)
        /\ MadeAtTarget(m, w, Key, T, moved, P, owner) /\ ViewsIn(m, w, Key, S)
    BY DEF Custody
  <1>2. /\ Lineage(Appended(m, k, x), w, Key, last)
        /\ \A v : /\ HeldUid(Appended(m, k, x), Key, v) <=> HeldUid(m, Key, v)
                  /\ StoredUid(Appended(m, k, x), Key, v) <=> StoredUid(m, Key, v)
    BY <1>1, LineageContinue
  <1>3. /\ TargetsAgree(Appended(m, k, x), w, Key, T, moved2)
        /\ MadeAtTarget(Appended(m, k, x), w, Key, T, moved2, P, owner)
    BY <1>1, TargetsContinue DEF Continuation
  <1>4. ViewsIn(Appended(m, k, x), w, Key, S2)
    BY <1>1, ViewsInAppend
  <1>5. Tracked(Key, V, Appended(m, k, x), w)
    BY ViewsAppend
  <1>6. Custody(Appended(m, k, x), w, Key, last, T, moved2, P, owner, S2)
    BY <1>2, <1>3, <1>4 DEF Custody
  <1>7. Custody(Appended(m, k, x), u, Key, last, T, moved2, P, owner, S2)
    BY <1>5, <1>6, CustodyFollow
  <1> QED  BY <1>2, <1>7

(* The stored version gets its finalizer. *)
LEMMA CustodyFinalize ==
  ASSUME NEW Key, NEW V, NEW m, NEW w, Tracked(Key, V, m, w), NEW u, Follows(w, u),
         NEW k \in Key, NEW x \in V, Busy(w, k), w.item = Stored(m[k]),
         Finalized(Stored(m[k]), x), NEW last \in Nat, NEW T, NEW moved,
         NEW P, NEW owner, Absent \notin Nat, NEW S, x \in S,
         Custody(m, w, Key, last, T, moved, P, owner, S)
  PROVE  /\ Custody(Appended(m, k, x), u, Key, last, T, moved, P, owner, S)
         /\ \A v : /\ HeldUid(Appended(m, k, x), Key, v)
                        <=> HeldUid(m, Key, v) \/ v = x.uid
                   /\ StoredUid(Appended(m, k, x), Key, v) <=> StoredUid(m, Key, v)
  <1>1. /\ Lineage(m, w, Key, last) /\ TargetsAgree(m, w, Key, T, moved)
        /\ MadeAtTarget(m, w, Key, T, moved, P, owner) /\ ViewsIn(m, w, Key, S)
    BY DEF Custody
  <1>2. /\ Lineage(Appended(m, k, x), w, Key, last)
        /\ \A v : /\ HeldUid(Appended(m, k, x), Key, v)
                       <=> HeldUid(m, Key, v) \/ v = x.uid
                  /\ StoredUid(Appended(m, k, x), Key, v) <=> StoredUid(m, Key, v)
    BY <1>1, LineageFinalize
  <1>3. /\ TargetsAgree(Appended(m, k, x), w, Key, T, moved)
        /\ MadeAtTarget(Appended(m, k, x), w, Key, T, moved, P, owner)
    BY <1>1, TargetsContinue DEF Finalized
  <1>4. ViewsIn(Appended(m, k, x), w, Key, S)
    BY <1>1, ViewsInAppend
  <1>5. Tracked(Key, V, Appended(m, k, x), w)
    BY ViewsAppend
  <1>6. Custody(Appended(m, k, x), w, Key, last, T, moved, P, owner, S)
    BY <1>2, <1>3, <1>4 DEF Custody
  <1>7. Custody(Appended(m, k, x), u, Key, last, T, moved, P, owner, S)
    BY <1>5, <1>6, CustodyFollow
  <1> QED  BY <1>2, <1>7

(* The stored version goes away. *)
LEMMA CustodyVanish ==
  ASSUME NEW Key, NEW V, NEW m, NEW w, Tracked(Key, V, m, w), NEW u, Follows(w, u),
         NEW k \in Key, Absent \in V, Stored(m[k]) # Absent,
         \/ Stored(m[k]).fins = {}
         \/ Busy(w, k) /\ w.item.deleting /\ w.item.uid = Stored(m[k]).uid,
         NEW last \in Nat, NEW T, NEW moved,
         NEW P, NEW owner, Absent \notin Nat, NEW S, Absent \in S,
         Custody(m, w, Key, last, T, moved, P, owner, S)
  PROVE  /\ Custody(Appended(m, k, Absent), u, Key, last, T, moved, P, owner, S)
         /\ \A v : /\ HeldUid(Appended(m, k, Absent), Key, v)
                        <=> HeldUid(m, Key, v) /\ v # Stored(m[k]).uid
                   /\ StoredUid(Appended(m, k, Absent), Key, v)
                        <=> StoredUid(m, Key, v) /\ v # Stored(m[k]).uid
  <1>1. /\ Lineage(m, w, Key, last) /\ TargetsAgree(m, w, Key, T, moved)
        /\ MadeAtTarget(m, w, Key, T, moved, P, owner) /\ ViewsIn(m, w, Key, S)
    BY DEF Custody
  <1>2. /\ Lineage(Appended(m, k, Absent), w, Key, last)
        /\ \A v : /\ HeldUid(Appended(m, k, Absent), Key, v)
                       <=> HeldUid(m, Key, v) /\ v # Stored(m[k]).uid
                  /\ StoredUid(Appended(m, k, Absent), Key, v)
                       <=> StoredUid(m, Key, v) /\ v # Stored(m[k]).uid
    BY <1>1, LineageVanish
  <1>3. /\ TargetsAgree(Appended(m, k, Absent), w, Key, T, moved)
        /\ MadeAtTarget(Appended(m, k, Absent), w, Key, T, moved, P, owner)
    BY <1>1, TargetsContinue
  <1>4. ViewsIn(Appended(m, k, Absent), w, Key, S)
    BY <1>1, ViewsInAppend
  <1>5. Tracked(Key, V, Appended(m, k, Absent), w)
    BY ViewsAppend
  <1>6. Custody(Appended(m, k, Absent), w, Key, last, T, moved, P, owner, S)
    BY <1>2, <1>3, <1>4 DEF Custody
  <1>7. Custody(Appended(m, k, Absent), u, Key, last, T, moved, P, owner, S)
    BY <1>5, <1>6, CustodyFollow
  <1> QED  BY <1>2, <1>7

(* A user creates an object. *)
LEMMA CustodyCreate ==
  ASSUME NEW Key, NEW V, NEW m, NEW w, Tracked(Key, V, m, w),
         NEW k \in Key, NEW x \in V, Stored(m[k]) = Absent, x # Absent, x.fins = {},
         NEW last \in Nat, x.uid = last + 1, NEW T, NEW moved,
         NEW P, NEW owner, \A p \in P : owner[p] # last + 1, NEW S, x \in S,
         Custody(m, w, Key, last, T, moved, P, owner, S)
  PROVE  /\ Custody(Appended(m, k, x), w, Key, last + 1, T, moved, P, owner, S)
         /\ \A v : /\ HeldUid(Appended(m, k, x), Key, v) <=> HeldUid(m, Key, v)
                   /\ StoredUid(Appended(m, k, x), Key, v)
                        <=> StoredUid(m, Key, v) \/ v = last + 1
  <1>1. /\ Lineage(m, w, Key, last) /\ TargetsAgree(m, w, Key, T, moved)
        /\ MadeAtTarget(m, w, Key, T, moved, P, owner) /\ ViewsIn(m, w, Key, S)
    BY DEF Custody
  <1>2. /\ Lineage(Appended(m, k, x), w, Key, last + 1)
        /\ \A v : /\ HeldUid(Appended(m, k, x), Key, v) <=> HeldUid(m, Key, v)
                  /\ StoredUid(Appended(m, k, x), Key, v)
                       <=> StoredUid(m, Key, v) \/ v = last + 1
    BY <1>1, LineageCreate
  <1>3. /\ TargetsAgree(Appended(m, k, x), w, Key, T, moved)
        /\ MadeAtTarget(Appended(m, k, x), w, Key, T, moved, P, owner)
    BY <1>1, TargetsCreate
  <1>4. ViewsIn(Appended(m, k, x), w, Key, S)
    BY <1>1, ViewsInAppend
  <1> QED  BY <1>2, <1>3, <1>4 DEF Custody

(* Reconcile makes something. *)
LEMMA CustodyMake ==
  ASSUME NEW Key, NEW V, NEW m, NEW w, Tracked(Key, V, m, w), NEW u, Follows(w, u),
         NEW k \in Key, Busy(w, k), NEW last \in Nat, NEW T, NEW moved,
         NEW P, NEW owner, NEW owner2, Absent \notin Nat, NEW S,
         \A p \in P : \/ owner2[p] = owner[p]
                      \/ /\ owner2[p] = w.item.uid
                         /\ w.item.uid \notin moved => p = T[w.item.spec],
         Custody(m, w, Key, last, T, moved, P, owner, S)
  PROVE  Custody(m, u, Key, last, T, moved, P, owner2, S)
  <1>1. /\ Lineage(m, w, Key, last) /\ TargetsAgree(m, w, Key, T, moved)
        /\ MadeAtTarget(m, w, Key, T, moved, P, owner) /\ ViewsIn(m, w, Key, S)
    BY DEF Custody
  <1>2. MadeAtTarget(m, w, Key, T, moved, P, owner2)
    BY <1>1, TargetsMake
  <1>3. Custody(m, w, Key, last, T, moved, P, owner2, S)
    BY <1>1, <1>2 DEF Custody
  <1> QED  BY <1>3, CustodyFollow

(* What the copy that Reconcile holds and the stored version say. *)
LEMMA CustodyItem ==
  ASSUME NEW Key, NEW V, NEW m, NEW w, Tracked(Key, V, m, w), NEW k \in Key,
         Busy(w, k), NEW last, NEW T, NEW moved, NEW P, NEW owner, NEW S,
         Custody(m, w, Key, last, T, moved, P, owner, S)
  PROVE  /\ w.item \in S /\ Stored(m[k]) \in S /\ w.item.uid <= last
         /\ Precedes(w.item, Stored(m[k]))
         /\ Active(w.item) => /\ StillStored(Stored(m[k]), w.item)
                              /\ HeldUid(m, Key, w.item.uid)
         /\ w.item.uid \notin moved =>
              \A p \in P : owner[p] = w.item.uid => p = T[w.item.spec]
  <1>1. /\ Lineage(m, w, Key, last)
        /\ MadeAtTarget(m, w, Key, T, moved, P, owner) /\ ViewsIn(m, w, Key, S)
    BY DEF Custody
  <1>2. /\ 0 \in Views(m, w, k) /\ View(m, w, k, 0) = w.item /\ w.item # Absent
        /\ Len(m[k]) \in Views(m, w, k) /\ View(m, w, k, Len(m[k])) = Stored(m[k])
    BY ViewType
  <1>3. w.item \in S /\ Stored(m[k]) \in S
    BY <1>1, <1>2 DEF ViewsIn
  <1>4. w.item.uid <= last
    BY <1>1, <1>2 DEF Lineage, Issued
  <1>5. /\ Precedes(w.item, Stored(m[k]))
        /\ Active(w.item) => /\ StillStored(Stored(m[k]), w.item)
                             /\ Stored(m[k]).fins # {}
    BY <1>1, <1>2, ViewStored
  <1>6. Active(w.item) => HeldUid(m, Key, w.item.uid)
    BY <1>5 DEF StillStored, HeldUid
  <1>7. w.item.uid \notin moved =>
          \A p \in P : owner[p] = w.item.uid => p = T[w.item.spec]
    BY <1>1, <1>2 DEF MadeAtTarget
  <1> QED  BY <1>3, <1>4, <1>5, <1>6, <1>7

(* At first. *)
LEMMA CustodyInit ==
  ASSUME NEW Key, NEW V, Versioned(V), Absent \in V, NEW m, NEW w,
         w.pc = "idle", m = [k \in Key |-> <<Absent>>], NEW last,
         NEW T, NEW moved, NEW P, NEW owner, NEW S, Absent \in S
  PROVE  /\ Custody(m, w, Key, last, T, moved, P, owner, S)
         /\ \A v : ~HeldUid(m, Key, v) /\ ~StoredUid(m, Key, v)
  <1>1. /\ Tracked(Key, V, m, w) /\ \A k \in Key : Stored(m[k]) = Absent
        /\ Lineage(m, w, Key, last) /\ TargetsAgree(m, w, Key, T, moved)
        /\ MadeAtTarget(m, w, Key, T, moved, P, owner)
    BY LineageInit
  <1>2. ViewsIn(m, w, Key, S)
    <2>1. \A k \in Key : Len(m[k]) = 1 /\ m[k][1] = Absent
      BY OneVersion
    <2>2. \A k \in Key : \A i \in Views(m, w, k) : View(m, w, k, i) = Absent
      BY <2>1, AbsentViews
    <2> QED  BY <2>2 DEF ViewsIn
  <1> QED  BY <1>1, <1>2 DEF Custody, HeldUid, StoredUid


-----------------------------------------------------------------------------
(* Requests that are due.  A success asks for no further request, so what a *)
(* status says can only be trusted if every change that Reconcile has not   *)
(* seen brings one.                                                         *)

(* Nothing that Reconcile works from is different. *)
SameContent(v, w) ==
  \/ v = w
  \/ /\ v # Absent /\ w # Absent
     /\ v.uid = w.uid /\ v.gen = w.gen /\ v.spec = w.spec /\ v.deleting = w.deleting

(* The predicate lets the event pass, or it may well be dropped. *)
Signalled(v, w) == EventPasses(v, w) \/ SameContent(v, w)

(* An event that passes is on its way, at i or later. *)
Announced(s, i) ==
  \E j \in Places(s) : i <= j /\ j + 1 \in Places(s) /\ EventPasses(s[j], s[j + 1])

ChangesTell(m, Key) ==
  \A k \in Key : \A i \in Places(m[k]) :
    /\ i + 1 \in Places(m[k]) => Signalled(m[k][i], m[k][i + 1])
    /\ SameContent(m[k][i], Stored(m[k])) \/ Announced(m[k], i)

(* A request for k is in the queue q, is being worked on by w, or is on its *)
(* way there.                                                               *)
Due(m, w, q, k) == k \in q \/ Busy(w, k) \/ Announced(m[k], 1)

(* A Reconcile whose copy is out of date has another request behind it. *)
WorkerTold(m, w, q) ==
  w.pc # "idle" => w.key \in q \/ SameContent(w.item, Cached(m[w.key]))

Told(m, w, q, Key) == ChangesTell(m, Key) /\ WorkerTold(m, w, q)

(* What is the same as the same is the same. *)
LEMMA SameAgain ==
  ASSUME NEW u, NEW v, NEW w, SameContent(u, v), SameContent(v, w)
  PROVE  SameContent(u, w)
  BY DEF SameContent

(* When nothing is on its way, Reconcile sees what is stored. *)
LEMMA CacheIsStored ==
  ASSUME NEW Key, NEW V, NEW m \in VersionMaps(Key, V), NEW k \in Key,
         ChangesTell(m, Key), ~Announced(m[k], 1)
  PROVE  SameContent(Cached(m[k]), Stored(m[k]))
  <1>1. 1 \in Places(m[k]) /\ Cached(m[k]) = m[k][1]
    BY MapEnds
  <1> QED  BY <1>1 DEF ChangesTell

(* Reconcile goes on or ends while the queue grows. *)
LEMMA ToldFollow ==
  ASSUME NEW Key, NEW m, NEW w, NEW u, Follows(w, u), NEW q, NEW q2, q \subseteq q2,
         Told(m, w, q, Key)
  PROVE  /\ Told(m, u, q2, Key)
         /\ \A k \in Key : Due(m, w, q, k) /\ (Busy(w, k) => Busy(u, k) \/ k \in q2)
                             => Due(m, u, q2, k)
  <1>1. WorkerTold(m, u, q2)
    BY DEF Told, WorkerTold, Follows
  <1>2. Told(m, u, q2, Key)
    BY <1>1 DEF Told
  <1>3. \A k \in Key : Due(m, w, q, k) /\ (Busy(w, k) => Busy(u, k) \/ k \in q2)
                         => Due(m, u, q2, k)
    BY DEF Due
  <1> QED  BY <1>2, <1>3

(* Reconcile takes a request for k from the queue, with the cached version. *)
LEMMA ToldBegin ==
  ASSUME NEW Key, NEW m, NEW w, w.pc = "idle", NEW u, NEW k \in Key,
         u.pc # "idle", u.key = k, u.item = Cached(m[k]), NEW q, Told(m, w, q, Key)
  PROVE  /\ Told(m, u, q \ {k}, Key)
         /\ \A j \in Key : Due(m, w, q, j) => Due(m, u, q \ {k}, j)
  <1>1. WorkerTold(m, u, q \ {k})
    BY DEF WorkerTold, SameContent
  <1>2. \A j \in Key : Due(m, w, q, j) => Due(m, u, q \ {k}, j)
    BY DEF Due, Busy
  <1> QED  BY <1>1, <1>2 DEF Told

(* A request for k leads to nothing. *)
LEMMA ToldNothing ==
  ASSUME NEW Key, NEW m, NEW w, w.pc = "idle", NEW k \in Key, NEW q,
         Told(m, w, q, Key)
  PROVE  /\ Told(m, w, q \ {k}, Key)
         /\ \A j \in Key \ {k} : Due(m, w, q, j) => Due(m, w, q \ {k}, j)
  <1>1. WorkerTold(m, w, q \ {k})
    BY DEF WorkerTold
  <1>2. \A j \in Key \ {k} : Due(m, w, q, j) => Due(m, w, q \ {k}, j)
    BY DEF Due
  <1> QED  BY <1>1, <1>2 DEF Told

(* What the delivery of an event of k does to the queue *)
Requests(m, k, q, q2) ==
  /\ q \subseteq q2
  /\ EventPasses(m[k][1], m[k][2]) => k \in q2

(* An event of k is delivered, and passes or not. *)
LEMMA ToldDeliver ==
  ASSUME NEW Key, NEW V, NEW m, NEW w, Tracked(Key, V, m, w), NEW k \in Key,
         Len(m[k]) > 1, NEW q, NEW q2, Requests(m, k, q, q2), Told(m, w, q, Key)
  PROVE  LET next == Delivered(m, k)
         IN  /\ Told(next, w, q2, Key)
             /\ \A j \in Key : Due(m, w, q, j) => Due(next, w, q2, j)
             /\ \A j \in Key : Stored(next[j]) = Stored(m[j])
  <1> USE DEF Requests
  <1> DEFINE next == Delivered(m, k)
  <1>1. m \in VersionMaps(Key, V)
    BY DEF Tracked
  <1>2. /\ next \in VersionMaps(Key, V)
        /\ \A i \in Places(next[k]) :
             i \in Nat /\ i + 1 \in Places(m[k]) /\ next[k][i] = m[k][i + 1]
        /\ \A j \in Key : Stored(next[j]) = Stored(m[j])
        /\ \A j \in Key \ {k} : next[j] = m[j]
    BY <1>1, MapTail
  <1>3. /\ m[k] \in Seq(V) /\ Len(m[k]) \in Nat
        /\ 1 \in Places(m[k]) /\ 2 \in Places(m[k]) /\ Cached(m[k]) = m[k][1]
        /\ \A i \in Places(m[k]) : i \in Nat /\ 1 <= i
    BY <1>1, MapEnds DEF Places
  <1>4. /\ 1 \in Places(next[k]) /\ Cached(next[k]) = m[k][2]
        /\ \A i \in Places(next[k]) : i \in Nat /\ 1 <= i
    <2>1. 1 \in Places(next[k]) /\ Cached(next[k]) = next[k][1]
      BY <1>2, MapEnds
    <2>2. next[k][1] = m[k][1 + 1]
      BY <1>2, <2>1
    <2> QED  BY <1>2, <2>1, <2>2, MapEnds
  <1>5. \A i \in Places(m[k]) : i # 1 => i - 1 \in Places(next[k])
    <2>1. m \in [Key -> Seq(V)]
      BY <1>1 DEF VersionMaps
    <2>2. next[k] = Tail(m[k])
      BY <2>1 DEF Delivered
    <2>3. Len(next[k]) = Len(m[k]) - 1
      BY <1>3, <2>2, TailVersion
    <2> QED  BY <1>3, <2>3 DEF Places
  <1> HIDE DEF next
  <1>6. ASSUME NEW i \in Places(next[k]), Announced(m[k], i + 1)
        PROVE  Announced(next[k], i)
    <2>1. PICK j \in Places(m[k]) :
            i + 1 <= j /\ j + 1 \in Places(m[k]) /\ EventPasses(m[k][j], m[k][j + 1])
      BY <1>6 DEF Announced
    <2>2. i \in Nat /\ 1 <= i /\ j \in Nat /\ i + 1 <= j
      BY <1>3, <1>4, <2>1
    <2>3. j # 1 /\ j + 1 # 1 /\ (j + 1) - 1 = j
      BY <2>2
    <2>4. j - 1 \in Places(next[k]) /\ j \in Places(next[k]) /\ (j - 1) + 1 = j
      BY <1>5, <2>1, <2>2, <2>3
    <2>5. next[k][j - 1] = m[k][j] /\ next[k][j] = m[k][j + 1]
      BY <1>2, <2>4
    <2> QED  BY <2>1, <2>2, <2>4, <2>5 DEF Announced
  <1>7. ChangesTell(next, Key)
    <2> SUFFICES ASSUME NEW j \in Key, NEW i \in Places(next[j])
                 PROVE  /\ i + 1 \in Places(next[j]) => Signalled(next[j][i], next[j][i + 1])
                        /\ SameContent(next[j][i], Stored(next[j])) \/ Announced(next[j], i)
      BY DEF ChangesTell
    <2>1. CASE j # k
      BY <1>2, <2>1 DEF Told, ChangesTell
    <2>2. CASE j = k
      <3>1. i + 1 \in Places(m[k]) /\ next[k][i] = m[k][i + 1]
        BY <1>2, <2>2
      <3>2. i + 1 \in Places(next[k]) =>
              (i + 1) + 1 \in Places(m[k]) /\ next[k][i + 1] = m[k][(i + 1) + 1]
        BY <1>2
      <3>3. /\ (i + 1) + 1 \in Places(m[k]) => Signalled(m[k][i + 1], m[k][(i + 1) + 1])
            /\ SameContent(m[k][i + 1], Stored(m[k])) \/ Announced(m[k], i + 1)
        BY <3>1 DEF Told, ChangesTell
      <3> QED  BY <1>2, <1>6, <2>2, <3>1, <3>2, <3>3
    <2> QED  BY <2>1, <2>2
  <1>8. EventPasses(m[k][1], m[k][2]) \/ SameContent(m[k][1], m[k][2])
    <2>1. 1 + 1 = 2
      OBVIOUS
    <2>2. Signalled(m[k][1], m[k][1 + 1])
      BY <1>3, <2>1 DEF Told, ChangesTell
    <2> QED  BY <2>1, <2>2 DEF Signalled
  <1>9. WorkerTold(next, w, q2)
    <2> SUFFICES ASSUME w.pc # "idle", w.key \notin q2
                 PROVE  SameContent(w.item, Cached(next[w.key]))
      BY DEF WorkerTold
    <2>1. SameContent(w.item, Cached(m[w.key])) /\ w.key \in Key
      BY DEF Told, WorkerTold, Tracked
    <2>2. CASE w.key # k
      BY <1>2, <2>1, <2>2
    <2>3. CASE w.key = k
      <3>1. SameContent(m[k][1], m[k][2])
        BY <1>8, <2>3
      <3> QED  BY <1>3, <1>4, <2>1, <2>3, <3>1, SameAgain
    <2> QED  BY <2>2, <2>3
  <1>10. ASSUME NEW j \in Key, Due(m, w, q, j) PROVE Due(next, w, q2, j)
    <2>1. CASE j \in q \/ Busy(w, j)
      BY <2>1 DEF Due
    <2>2. CASE j # k
      BY <1>2, <1>10, <2>2 DEF Due
    <2>3. CASE j = k /\ Announced(m[k], 1) /\ k \notin q2
      <3>1. PICK i \in Places(m[k]) :
              1 <= i /\ i + 1 \in Places(m[k]) /\ EventPasses(m[k][i], m[k][i + 1])
        BY <2>3 DEF Announced
      <3>2. i # 1
        <4>1. ~EventPasses(m[k][1], m[k][2]) /\ 1 + 1 = 2
          BY <2>3
        <4> QED  BY <3>1, <4>1
      <3>3. i \in Nat /\ 1 + 1 <= i
        BY <1>3, <3>1, <3>2
      <3>4. Announced(m[k], 1 + 1)
        BY <3>1, <3>3 DEF Announced
      <3> QED  BY <1>4, <1>6, <2>3, <3>4 DEF Due
    <2> QED  BY <1>10, <2>1, <2>2, <2>3 DEF Due
  <1> QED  BY <1>2, <1>7, <1>9, <1>10 DEF Told, next

(* What is written with an event that passes is announced. *)
LEMMA PassingIsAnnounced ==
  ASSUME NEW Key, NEW V, NEW m \in VersionMaps(Key, V), NEW k \in Key, NEW x \in V,
         EventPasses(Stored(m[k]), x)
  PROVE  Announced(Appended(m, k, x)[k], 1)
  <1> DEFINE next == Appended(m, k, x)
             n == Len(m[k])
  <1>1. /\ Places(next[k]) = Places(m[k]) \cup {n + 1}
        /\ \A i \in Places(m[k]) : next[k][i] = m[k][i]
        /\ next[k][n + 1] = x
    BY MapAppend
  <1>2. n \in Nat /\ 1 <= n /\ n \in Places(m[k]) /\ Stored(m[k]) = m[k][n]
    BY MapEnds
  <1> HIDE DEF next, n
  <1>3. /\ n \in Places(next[k]) /\ n + 1 \in Places(next[k])
        /\ EventPasses(next[k][n], next[k][n + 1])
    BY <1>1, <1>2
  <1>4. Announced(next[k], 1)
    BY <1>2, <1>3 DEF Announced
  <1> QED  BY <1>4 DEF next

(* A version of k is written, and the queue does not shrink. *)
LEMMA ToldAppend ==
  ASSUME NEW Key, NEW V, NEW m, NEW w, Tracked(Key, V, m, w), NEW k \in Key,
         NEW x \in V, Signalled(Stored(m[k]), x), NEW q, Told(m, w, q, Key)
  PROVE  LET next == Appended(m, k, x)
         IN  /\ Told(next, w, q, Key)
             /\ \A j \in Key : Due(m, w, q, j) => Due(next, w, q, j)
             /\ EventPasses(Stored(m[k]), x) => Due(next, w, q, k)
             /\ Stored(next[k]) = x /\ \A j \in Key \ {k} : next[j] = m[j]
  <1> DEFINE next == Appended(m, k, x)
             n == Len(m[k])
  <1>1. m \in VersionMaps(Key, V)
    BY DEF Tracked
  <1>2. /\ next \in VersionMaps(Key, V)
        /\ Places(next[k]) = Places(m[k]) \cup {n + 1}
        /\ \A i \in Places(m[k]) : i < n + 1 /\ next[k][i] = m[k][i]
        /\ next[k][n + 1] = x
        /\ Stored(next[k]) = x
        /\ \A j \in Key \ {k} : next[j] = m[j]
    BY <1>1, MapAppend
  <1>3. /\ n \in Nat /\ 1 <= n /\ n \in Places(m[k]) /\ Stored(m[k]) = m[k][n]
        /\ 1 \in Places(m[k]) /\ Cached(m[k]) = m[k][1]
        /\ \A i \in Places(m[k]) : i \in Nat /\ 1 <= i /\ i <= n
    BY <1>1, MapEnds
  <1>4. Cached(next[k]) = Cached(m[k])
    <2>1. Cached(next[k]) = next[k][1]
      BY <1>2, MapEnds
    <2> QED  BY <1>2, <1>3, <2>1
  <1> HIDE DEF next, n
  <1>5. ASSUME NEW i, Announced(m[k], i) PROVE Announced(next[k], i)
    <2>1. PICK j \in Places(m[k]) :
            i <= j /\ j + 1 \in Places(m[k]) /\ EventPasses(m[k][j], m[k][j + 1])
      BY <1>5 DEF Announced
    <2>2. /\ j \in Places(next[k]) /\ j + 1 \in Places(next[k])
          /\ next[k][j] = m[k][j] /\ next[k][j + 1] = m[k][j + 1]
      BY <1>2, <2>1
    <2> QED  BY <2>1, <2>2 DEF Announced
  <1>6. ASSUME NEW i \in Places(m[k]), EventPasses(m[k][n], x) PROVE Announced(next[k], i)
    <2>1. /\ n \in Places(next[k]) /\ n + 1 \in Places(next[k]) /\ i <= n
          /\ next[k][n] = m[k][n] /\ next[k][n + 1] = x
      BY <1>2, <1>3
    <2> QED  BY <1>6, <2>1 DEF Announced
  <1>7. ChangesTell(next, Key)
    <2> SUFFICES ASSUME NEW j \in Key, NEW i \in Places(next[j])
                 PROVE  /\ i + 1 \in Places(next[j]) => Signalled(next[j][i], next[j][i + 1])
                        /\ SameContent(next[j][i], Stored(next[j])) \/ Announced(next[j], i)
      BY DEF ChangesTell
    <2>1. CASE j # k
      BY <1>2, <2>1 DEF Told, ChangesTell
    <2>2. CASE j = k /\ i = n + 1
      <3>1. i + 1 \notin Places(next[k])
        BY <1>2, <1>3, <2>2
      <3>2. SameContent(next[k][i], Stored(next[k]))
        BY <1>2, <2>2 DEF SameContent
      <3> QED  BY <2>2, <3>1, <3>2
    <2>3. CASE j = k /\ i \in Places(m[k])
      <3>1. /\ i + 1 \in Places(m[k]) => Signalled(m[k][i], m[k][i + 1])
            /\ SameContent(m[k][i], Stored(m[k])) \/ Announced(m[k], i)
        BY <2>3 DEF Told, ChangesTell
      <3>2. next[k][i] = m[k][i] /\ i \in Nat /\ i <= n
        BY <1>2, <1>3, <2>3
      <3>3. ASSUME i + 1 \in Places(next[k]) PROVE Signalled(next[k][i], next[k][i + 1])
        <4>1. CASE i + 1 \in Places(m[k])
          BY <1>2, <3>1, <3>2, <4>1
        <4>2. CASE i + 1 = n + 1
          <5>1. i = n
            BY <1>3, <3>2, <4>2
          <5> QED  BY <1>2, <1>3, <3>2, <4>2, <5>1
        <4> QED  BY <1>2, <3>3, <4>1, <4>2
      <3>4. CASE Announced(m[k], i)
        BY <1>5, <2>3, <3>3, <3>4
      <3>5. CASE SameContent(m[k][i], Stored(m[k]))
        <4>1. CASE EventPasses(m[k][n], x)
          BY <1>6, <2>3, <3>3, <4>1
        <4>2. CASE SameContent(Stored(m[k]), x)
          <5>1. SameContent(next[k][i], x)
            BY <3>2, <3>5, <4>2, SameAgain
          <5> QED  BY <1>2, <2>3, <3>3, <5>1
        <4> QED  BY <1>3, <4>1, <4>2 DEF Signalled
      <3> QED  BY <3>1, <3>4, <3>5
    <2> QED  BY <1>2, <2>1, <2>2, <2>3
  <1>8. WorkerTold(next, w, q)
    <2> SUFFICES ASSUME w.pc # "idle", w.key \notin q
                 PROVE  SameContent(w.item, Cached(next[w.key]))
      BY DEF WorkerTold
    <2>1. SameContent(w.item, Cached(m[w.key])) /\ w.key \in Key
      BY DEF Told, WorkerTold, Tracked
    <2> QED  BY <1>2, <1>4, <2>1
  <1>9. ASSUME NEW j \in Key, Due(m, w, q, j) PROVE Due(next, w, q, j)
    <2>1. CASE j # k
      BY <1>2, <1>9, <2>1 DEF Due
    <2>2. CASE j = k
      BY <1>5, <1>9, <2>2 DEF Due
    <2> QED  BY <2>1, <2>2
  <1>10. EventPasses(Stored(m[k]), x) => Due(next, w, q, k)
    BY <1>3, <1>6 DEF Due
  <1> QED  BY <1>2, <1>7, <1>8, <1>9, <1>10 DEF Told, next

(* After a restart every object that is stored has a request. *)
LEMMA ToldRestart ==
  ASSUME NEW Key, NEW V, NEW m \in VersionMaps(Key, V), NEW idle, idle.pc = "idle"
  PROVE  LET next == Relisted(m, Key)
         IN  /\ Told(next, idle, Listed(m), Key)
             /\ \A k \in Key : /\ Stored(next[k]) = Stored(m[k])
                               /\ Stored(m[k]) # Absent => Due(next, idle, Listed(m), k)
  <1> DEFINE next == Relisted(m, Key)
  <1>1. \A k \in Key : /\ Places(next[k]) = {1}
                       /\ next[k][1] = Stored(m[k])
                       /\ Stored(next[k]) = Stored(m[k])
    BY MapRestart
  <1>2. ChangesTell(next, Key)
    <2> SUFFICES ASSUME NEW k \in Key, NEW i \in Places(next[k])
                 PROVE  /\ i + 1 \in Places(next[k]) => Signalled(next[k][i], next[k][i + 1])
                        /\ SameContent(next[k][i], Stored(next[k])) \/ Announced(next[k], i)
      BY DEF ChangesTell
    <2>1. i = 1 /\ i + 1 \notin Places(next[k])
      BY <1>1
    <2> QED  BY <1>1, <2>1 DEF SameContent
  <1>3. WorkerTold(next, idle, Listed(m))
    BY DEF WorkerTold
  <1>4. \A k \in Key : Stored(m[k]) # Absent => k \in Listed(m)
    <2>1. DOMAIN m = Key
      BY DEF VersionMaps
    <2> QED  BY <2>1 DEF Listed
  <1> QED  BY <1>1, <1>2, <1>3, <1>4 DEF Told, Due

(* At first nothing is there. *)
LEMMA ToldInit ==
  ASSUME NEW Key, NEW m, m = [k \in Key |-> <<Absent>>], NEW w, w.pc = "idle", NEW q
  PROVE  Told(m, w, q, Key)
  <1>1. \A k \in Key : Len(m[k]) = 1 /\ m[k][1] = Absent
    BY OneVersion
  <1>2. ASSUME NEW s, Len(s) = 1, s[1] = Absent, NEW i \in Places(s)
        PROVE  /\ i + 1 \notin Places(s)
               /\ SameContent(s[i], Stored(s))
    BY <1>2 DEF Places, Stored, SameContent
  <1>3. ChangesTell(m, Key)
    BY <1>1, <1>2 DEF ChangesTell
  <1> QED  BY <1>3 DEF Told, WorkerTold

=============================================================================
