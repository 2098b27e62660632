---------------------------- MODULE DriversProofs ----------------------------
(***************************************************************************)
(* Proofs about fetch_schema of the drivers: its metadata names nothing    *)
(* that was not there, and leaves out nothing that was there throughout.   *)
(* The invariant follows an object that is meant to be reported from the   *)
(* query that serves it to its row.                                        *)
(***************************************************************************)
EXTENDS Drivers, FiniteSetTheorems, SequenceTheorems, TLAPS

(* The kinds of query there are.                                           *)
QueryKinds ==
    ObjectKinds \cup {"stats", "field", "validator", "dbstats", "info_server", "info_keyspace",
                     "info_memory", "info_replication", "acl", "scan"}

(* What a query may name: nothing, a table or collection, a key, or the    *)
(* keys that a scan has passed.                                            *)
Names == {o.name : o \in server.objects}
Queries == QueryKinds \X ({Null} \cup Names \cup server.objects \cup SUBSET server.objects)

(* A row tells of something that was there: itself, or a field of one of   *)
(* the documents of a collection, not optional without a reason.           *)
Everywhere(r, c) ==
    \/ \A doc \in ToSet(c.keys) : r.name \in ToSet(doc)
    \/ \E doc \in ToSet(c.keys) : \E i, j \in DOMAIN doc :
            i # j /\ doc[i] = r.name /\ doc[j] = r.name
    \/ Len(c.keys) > SampleDocs

(* A row tells of an object: filed under its own table, or, for Oracle,    *)
(* under one of its owner's.                                               *)
Tells(r, o) == Same(r, o) \/ Misfiled(r, o)

FieldOf(r, c) ==
    /\ r.kind = "field" /\ c.kind = "collection" /\ r.on = <<c.schema, c.name>>
    /\ \E doc \in ToSet(c.keys) : r.name \in ToSet(doc)
    /\ r.keys = {} => Everywhere(r, c)

Known(r) == \E o \in seen : (Tells(r, o) /\ r.kind # "field") \/ FieldOf(r, o)

(* What of some objects a driver has a query for and a place to file it    *)
(* under: what it asks for at once, and the parts it asks for table by     *)
(* table, collection by collection, key by key.                            *)
AskedLater ==
    CASE Engine = "sqlite" -> ToSet(SqliteTableParts)
      [] Engine = "mongodb" -> ToSet(MongoCollectionParts)
      [] Engine = "redis" -> {"key"}
      [] OTHER -> {}

Asked == {q[1] : q \in UNION {ToSet(s) : s \in Work}}

Listed(objects) == {o \in objects : o.kind \in Asked \cup AskedLater /\ Lists(o, objects)}

(* A part is filed under its own table.                                    *)
Keeps(o, rows) == o.on \in Files(o, rows)

Meant(objects) ==
    {o \in Listed(objects) :
        /\ Keeps(o, Listed(objects))
        /\ Child(o) /\ o.kind \in AskedLater =>
              \E p \in Parent(o, Listed(objects)) : p.kind \in {"table", "collection"}}

(* What of them is still there when the answer is grouped.                 *)
Reportable == Grouped(Meant(stable))

(* The chains: each query is still to be made of the server it is for, a   *)
(* scan is the last of its chain, and keys are keys that were there.       *)
ChainsSound ==
    /\ todo \subseteq Seq(Queries) \ {<<>>}
    /\ \A s \in todo : \A i \in DOMAIN s :
          /\ s[i][1] \in {"scan", "key"} => Engine = "redis"
          /\ s[i][1] = "scan" => i = Len(s) /\ s[i][2] \subseteq server.objects
          /\ s[i][1] = "key" => s[i][2] \in seen

(* The engines whose tables come in the chain of their parts.              *)
Nested == Engine \in {"postgresql", "mysql", "oracle", "sqlserver"}

HolderKind(kind) == IF kind = "argument" THEN "procedure" ELSE "table"

(* Tables are asked for before what is attached to them, in one chain.     *)
TablesFirst ==
    Nested => \A s, x \in todo : \A i \in DOMAIN s : \A j \in DOMAIN x :
        s[i][1] \in PartKinds /\ x[j][1] = HolderKind(s[i][1]) => s = x /\ j < i

(* A row that answers for an object, and what excuses that there is none   *)
(* (a collection's command failed, the sample of keys is full).            *)
WithColumns(o) == o.kind = "fk" \/ (o.kind = "index" /\ Engine # "oracle")

Answered(o, rows) ==
    \E r \in rows : Same(r, o) /\ (WithColumns(o) => ToSet(o.keys) \subseteq r.keys)

Excused(o) ==
    \/ Engine = "mongodb" /\ Child(o) /\ <<o.kind, o.on[2]>> \in skipped
    \/ Engine = "redis" /\ taken = SampleLimit

(* A query by which an object that is meant to be reported may still be    *)
(* read: that of its kind, of its table or collection, of its parts, of    *)
(* the key itself, or a scan that has not passed it.                       *)
Serves(q, o) ==
    \/ Engine # "redis" /\ o.kind \notin AskedLater /\ q = <<o.kind, Null>>
    \/ /\ o.kind \in PartKinds /\ o.kind \in AskedLater
       /\ \/ Engine = "sqlite" /\ q = <<"table", Null>>
          \/ Engine = "mongodb" /\ q = <<"collection", Null>>
          \/ q = <<o.kind, o.on[2]>>
    \/ Engine = "redis" /\ (q = <<"key", o>> \/ (q[1] = "scan" /\ o \notin q[2]))

Awaited(o) == \E s \in todo : \E i \in DOMAIN s : Serves(s[i], o)

(* Nothing that is meant is lost.                                          *)
Complete ==
    /\ status = "fetching" => \A o \in Meant(stable) : Answered(o, got) \/ Excused(o) \/ Awaited(o)
    /\ status = "done" => \A o \in Reportable : Answered(o, answer) \/ Excused(o)

(* The inductive invariant.                                                *)
DriversInv ==
    /\ TypeOK
    /\ stable \subseteq catalog /\ seen \subseteq server.objects
    /\ status \in {"fetching", "done", "failed"} => catalog \subseteq seen
    /\ \A r \in got \cup answer : Known(r)
    /\ ChainsSound /\ TablesFirst
    /\ Complete
    /\ status # "closed" => caps = Capabilities(server)

(* A chain that asks for kinds only; one that asks for what parts hang on  *)
(* before it asks for the parts.                                           *)
Plain(s) ==
    /\ s \in Seq(QueryKinds \X {Null}) \ {<<>>}
    /\ \A i \in DOMAIN s : s[i] = <<s[i][1], Null>> /\ s[i][1] \notin {"scan", "key"}

InOrder(s, x) ==
    \A i \in DOMAIN s : \A j \in DOMAIN x :
        s[i][1] \in PartKinds /\ x[j][1] = HolderKind(s[i][1]) => s = x /\ j < i

KindsOf(s) == {s[i][1] : i \in DOMAIN s}
-----------------------------------------------------------------------------
(* SetToSeq puts the elements of a finite set in some order.               *)
LEMMA SetToSeqLists ==
    ASSUME NEW S, IsFiniteSet(S), NEW s, s = SetToSeq(S)
    PROVE  /\ s \in Seq(S) /\ DOMAIN s = 1..Len(s) /\ Len(s) \in Nat
           /\ \A x \in S : \E i \in DOMAIN s : s[i] = x
           /\ \A i \in DOMAIN s : s[i] \in S
<1> DEFINE n == Cardinality(S)
           Lists1 == [1..n -> S]
<1>1. n \in Nat /\ IsFiniteSet(1..n) /\ Cardinality(1..n) = n
    BY FS_CardinalityType, FS_Interval
<1>2. PICK f \in Bijection(1..n, S) : TRUE
    BY FS_CardinalityType DEF ExistsBijection
<1>3. f \in Lists1 /\ IsInjective(f)
    BY <1>2 DEF Bijection, Injection
<1>4. s \in Lists1 /\ IsInjective(s)
    BY <1>3 DEF SetToSeq
<1>5. s \in Injection(1..n, S)
    BY <1>4 DEF Injection
<1>6. s \in Surjection(1..n, S)
    BY <1>1, <1>5, FS_Injection
<1>7. \A x \in S : \E i \in 1..n : s[i] = x
    BY <1>6 DEF Surjection
<1>8. s \in Seq(S) /\ Len(s) = n /\ DOMAIN s = 1..n
    BY <1>1, <1>4
<1>9. QED
    BY <1>1, <1>4, <1>7, <1>8

(* Quotient and remainder of the position of a query in EachOf.            *)
LEMMA DivideTimes ==
    ASSUME NEW b \in Nat \ {0}, NEW q \in Nat, NEW r \in 0..(b - 1)
    PROVE  (b * q + r) \div b = q /\ (b * q + r) % b = r /\ b * q + r \in Nat
    OBVIOUS

LEMMA DivideNat ==
    ASSUME NEW m \in Nat, NEW b \in Nat \ {0}
    PROVE  /\ m \div b \in Nat /\ m % b \in 0..(b - 1)
           /\ b * (m \div b) <= m
           /\ m < b * (m \div b) + b
    OBVIOUS

LEMMA TimesMonotone ==
    ASSUME NEW b \in Nat, NEW i \in Nat, NEW j \in Nat, i <= j
    PROVE  b * i <= b * j /\ b * i \in Nat /\ b * j \in Nat
    OBVIOUS

LEMMA TimesStep ==
    ASSUME NEW b \in Nat, NEW i \in Nat
    PROVE  b * (i + 1) = b * i + b
    OBVIOUS

LEMMA TimesLess ==
    ASSUME NEW b \in Nat, NEW i \in Nat, NEW j \in Nat, b * i < b * j
    PROVE  i < j
    BY TimesMonotone

(* EachOf makes each query of each name.                                   *)
LEMMA EachOfLists ==
    ASSUME NEW kinds \in Seq(QueryKinds), kinds # <<>>, NEW names \in Seq(Names)
    PROVE  /\ EachOf(kinds, names) \in Seq(QueryKinds \X Names)
           /\ \A i \in DOMAIN EachOf(kinds, names) : \E a \in DOMAIN kinds, b \in DOMAIN names :
                 EachOf(kinds, names)[i] = <<kinds[a], names[b]>>
           /\ \A a \in DOMAIN kinds, b \in DOMAIN names : \E i \in DOMAIN EachOf(kinds, names) :
                 EachOf(kinds, names)[i] = <<kinds[a], names[b]>>
<1> DEFINE s == EachOf(kinds, names)
           k == Len(kinds)
           n == Len(names)
<1>1. /\ k \in Nat \ {0} /\ n \in Nat /\ DOMAIN kinds = 1..k /\ DOMAIN names = 1..n
      /\ \A a \in 1..k : kinds[a] \in QueryKinds
      /\ \A b \in 1..n : names[b] \in Names
    OBVIOUS
<1>2. k * n \in Nat
    BY <1>1, TimesMonotone
<1>3. s = [i \in 1..(k * n) |-> <<kinds[((i - 1) % k) + 1], names[((i - 1) \div k) + 1]>>]
    BY DEF EachOf
<1> HIDE DEF k, n, s
<1>4. ASSUME NEW i \in 1..(k * n)
      PROVE  ((i - 1) % k) + 1 \in 1..k /\ ((i - 1) \div k) + 1 \in 1..n
  <2> DEFINE m == i - 1
             q == m \div k
  <2>1. m \in Nat /\ m < k * n
    BY <1>2
  <2>2. q \in Nat /\ m % k \in 0..(k - 1) /\ k * q <= m
    BY <1>1, <2>1, DivideNat
  <2>3. k * q < k * n /\ k * q \in Nat
    BY <1>1, <1>2, <2>1, <2>2, TimesMonotone
  <2>4. q < n
    BY <1>1, <2>2, <2>3, TimesLess
  <2>5. QED
    BY <1>1, <2>2, <2>4
<1>5. ASSUME NEW a \in 1..k, NEW b \in 1..n
      PROVE  \E i \in 1..(k * n) : ((i - 1) % k) + 1 = a /\ ((i - 1) \div k) + 1 = b
  <2> DEFINE q == b - 1
             r == a - 1
             m == k * q + r
  <2>1. q \in Nat /\ r \in 0..(k - 1) /\ q + 1 = b /\ b \in Nat /\ b <= n
    BY <1>1
  <2>2. m \div k = q /\ m % k = r /\ m \in Nat
    BY <1>1, <2>1, DivideTimes
  <2>3. m < k * n
    <3>1. k * b = k * q + k
      BY <1>1, <2>1, TimesStep
    <3>2. k * b <= k * n /\ k * b \in Nat /\ k * q \in Nat
      BY <1>1, <2>1, TimesMonotone
    <3>3. QED
      BY <1>1, <1>2, <2>1, <3>1, <3>2
  <2> HIDE DEF m, q, r
  <2>4. m + 1 \in 1..(k * n) /\ (m + 1) - 1 = m
    BY <1>2, <2>2, <2>3
  <2>5. (m % k) + 1 = a /\ (m \div k) + 1 = b
    BY <2>1, <2>2 DEF r, q
  <2>6. QED
    BY <2>4, <2>5
<1> DEFINE A(i) == ((i - 1) % k) + 1
           B(i) == ((i - 1) \div k) + 1
           top == k * n
<1>6. top \in Nat /\ s = [i \in 1..top |-> <<kinds[A(i)], names[B(i)]>>]
    BY <1>2, <1>3
<1>7. /\ \A i \in 1..top : A(i) \in 1..k /\ B(i) \in 1..n
      /\ \A a \in 1..k, b \in 1..n : \E i \in 1..top : A(i) = a /\ B(i) = b
    BY <1>4, <1>5
<1> HIDE DEF A, B, top
<1>8. DOMAIN s = 1..top /\ \A i \in 1..top : s[i] = <<kinds[A(i)], names[B(i)]>>
    BY <1>6
<1>9. \A i \in 1..top : <<kinds[A(i)], names[B(i)]>> \in QueryKinds \X Names
    BY <1>1, <1>7
<1>10. s \in Seq(QueryKinds \X Names)
    BY <1>6, <1>9
<1>11. ASSUME NEW a \in DOMAIN kinds, NEW b \in DOMAIN names
       PROVE  \E i \in DOMAIN s : s[i] = <<kinds[a], names[b]>>
  <2>1. PICK i \in 1..top : A(i) = a /\ B(i) = b
    BY <1>1, <1>7
  <2>2. QED
    BY <1>8, <2>1
<1>12. ASSUME NEW i \in DOMAIN s
       PROVE  \E a \in DOMAIN kinds, b \in DOMAIN names : s[i] = <<kinds[a], names[b]>>
  <2>1. PICK a, b : a = A(i) /\ b = B(i)
    OBVIOUS
  <2>2. a \in DOMAIN kinds /\ b \in DOMAIN names /\ s[i] = <<kinds[a], names[b]>>
    BY <1>1, <1>7, <1>8, <2>1
  <2>3. QED
    BY <2>2
<1>13. QED
    BY <1>10, <1>11, <1>12 DEF s

(* Each asks for every kind, in order.                                     *)
LEMMA EachLists ==
    ASSUME NEW kinds \in Seq(QueryKinds), NEW s, s = Each(kinds)
    PROVE  /\ s \in Seq(QueryKinds \X {Null}) /\ Len(s) = Len(kinds)
           /\ \A i \in 1..Len(kinds) : s[i] = <<kinds[i], Null>>
<1>1. s = [i \in 1..Len(kinds) |-> <<kinds[i], Null>>]
    BY DEF Each
<1>2. \A i \in 1..Len(kinds) : <<kinds[i], Null>> \in QueryKinds \X {Null}
    OBVIOUS
<1>3. QED
    BY <1>1, <1>2

(* A path counted as often as there are documents is in each of them, or   *)
(* in one of them twice.                                                   *)
LEMMA CountedEverywhere ==
    ASSUME NEW docs, IsList(docs), \A n \in DOMAIN docs : IsList(docs[n]),
           NEW path, ~(Occurrences(docs, path) < Len(docs))
    PROVE  \/ \A doc \in ToSet(docs) : path \in ToSet(doc)
           \/ \E doc \in ToSet(docs) : \E i, j \in DOMAIN doc :
                 i # j /\ doc[i] = path /\ doc[j] = path
<1> DEFINE L == Len(docs)
           P == Places(docs, path)
<1>1. L \in Nat /\ DOMAIN docs = 1..L
    BY DEF IsList
<1>2. SUFFICES ASSUME NEW m \in 1..L, path \notin ToSet(docs[m]),
                      \A n \in 1..L : \A i, j \in DOMAIN docs[n] :
                         docs[n][i] = path /\ docs[n][j] = path => i = j
               PROVE  FALSE
    BY <1>1 DEF ToSet
<1>3. \A p \in P : /\ p = <<p[1], p[2]>> /\ p[1] \in 1..L
                   /\ p[2] \in DOMAIN docs[p[1]] /\ docs[p[1]][p[2]] = path
    BY <1>1 DEF Places
<1> DEFINE f == [p \in P |-> p[1]]
           T == (1..L) \ {m}
<1>4. \A p \in P : p[1] \in T
    BY <1>2, <1>3 DEF ToSet
<1>5. \A p, q \in P : p[1] = q[1] => p = q
    BY <1>2, <1>3
<1>6. f \in [P -> T] /\ IsInjective(f)
    BY <1>4, <1>5 DEF IsInjective
<1>7. IsFiniteSet(T) /\ Cardinality(T) = L - 1
  <2>1. IsFiniteSet(1..L) /\ Cardinality(1..L) = L
    BY <1>1, FS_Interval
  <2> DEFINE I == 1..L
  <2>2. m \in I
    OBVIOUS
  <2> HIDE DEF I
  <2>3. IsFiniteSet(I \ {m}) /\ Cardinality(I \ {m}) = Cardinality(I) - 1
    BY <2>1, <2>2, FS_RemoveElement DEF I
  <2>4. QED
    BY <2>1, <2>3 DEF I
<1>8. IsFiniteSet(P) /\ Cardinality(P) <= Cardinality(T)
    <2>1. f \in Injection(P, T)
      BY <1>6 DEF Injection
    <2> HIDE DEF f, P, T
    <2>2. QED
      BY <1>7, <2>1, FS_Injection
<1>9. Cardinality(P) \in Nat
    BY <1>8, FS_CardinalityType
<1>10. QED
    BY <1>1, <1>7, <1>8, <1>9 DEF Occurrences
-----------------------------------------------------------------------------
(* The operators of the model, engine by engine.                           *)
LEMMA WorkIs ==
    /\ Engine = "postgresql" => Work = PostgresWork(caps)
    /\ Engine = "mysql" => Work = MySqlWork(caps)
    /\ Engine = "sqlite" => Work = SqliteWork
    /\ Engine = "oracle" => Work = OracleWork
    /\ Engine = "sqlserver" => Work = SqlServerWork(caps)
    /\ Engine = "mongodb" => Work = MongoWork
    /\ Engine = "redis" => Work = RedisWork(caps)
    BY DEF Work

LEMMA AskedLaterIs ==
    /\ Engine = "sqlite" => AskedLater = {"column", "index", "fk"}
    /\ Engine = "mongodb" => AskedLater = {"stats", "field", "index", "validator"}
    /\ Engine = "redis" => AskedLater = {"key"}
    /\ Nested => AskedLater = {}
<1>1. ToSet(SqliteTableParts) = {"column", "index", "fk"}
    BY DEF ToSet, SqliteTableParts
<1>2. ToSet(MongoCollectionParts) = {"stats", "field", "index", "validator"}
    BY DEF ToSet, MongoCollectionParts
<1>3. Engine = "sqlite" => AskedLater = ToSet(SqliteTableParts)
    BY DEF AskedLater
<1>4. Engine = "mongodb" => AskedLater = ToSet(MongoCollectionParts)
    BY DEF AskedLater
<1>5. Engine = "redis" => AskedLater = {"key"}
    BY DEF AskedLater
<1>6. Nested => AskedLater = {}
    BY DEF AskedLater, Nested
<1>7. QED
    BY <1>1, <1>2, <1>3, <1>4, <1>5, <1>6

LEMMA FollowIs ==
    ASSUME NEW q, NEW rows, NEW names, names = SetToSeq({r.name : r \in rows})
    PROVE  /\ Engine = "sqlite" /\ q[1] = "table" => Follow(q, rows) = EachOf(SqliteTableParts, names)
           /\ Engine = "mongodb" /\ q[1] = "collection" =>
                 Follow(q, rows) = EachOf(MongoCollectionParts, names)
           /\ ~(Engine = "sqlite" /\ q[1] = "table") /\ ~(Engine = "mongodb" /\ q[1] = "collection") =>
                 Follow(q, rows) = <<>>
    BY DEF Follow

(* Chains of kinds: one made by Each, two after each other, one without    *)
(* parts.                                                                  *)
LEMMA EachIsPlain ==
    ASSUME NEW kinds \in Seq(QueryKinds), kinds # <<>>, \A i \in DOMAIN kinds : kinds[i] \notin {"scan", "key"}
    PROVE  Plain(Each(kinds)) /\ KindsOf(Each(kinds)) = ToSet(kinds)
<1> DEFINE s == Each(kinds)
<1>1. /\ s \in Seq(QueryKinds \X {Null}) /\ Len(s) = Len(kinds)
      /\ \A i \in 1..Len(kinds) : s[i] = <<kinds[i], Null>>
    BY EachLists
<1>2. DOMAIN kinds = 1..Len(kinds) /\ DOMAIN s = 1..Len(kinds) /\ Len(kinds) \in Nat \ {0}
    BY <1>1
<1> HIDE DEF s
<1>3. Plain(s)
    BY <1>1, <1>2 DEF Plain
<1>4. KindsOf(s) = ToSet(kinds)
    BY <1>1, <1>2 DEF KindsOf, ToSet
<1>5. QED
    BY <1>3, <1>4 DEF s

LEMMA ConcatIsPlain ==
    ASSUME NEW s, NEW x, Plain(s), Plain(x)
    PROVE  /\ Plain(s \o x) /\ KindsOf(s \o x) = KindsOf(s) \cup KindsOf(x)
           /\ InOrder(s, s) /\ InOrder(x, x)
                 /\ ~ (\E k \in KindsOf(s) \cap PartKinds : HolderKind(k) \in KindsOf(x))
              => InOrder(s \o x, s \o x)
<1> DEFINE S == QueryKinds \X {Null}
           y == s \o x
           m == Len(s)
           n == Len(x)
<1>1. s \in Seq(S) /\ x \in Seq(S) /\ m \in Nat /\ n \in Nat /\ m > 0
      /\ DOMAIN s = 1..m /\ DOMAIN x = 1..n
    BY DEF Plain
<1>2. /\ y \in Seq(S) /\ Len(y) = m + n
      /\ \A i \in 1..(m + n) : y[i] = IF i <= m THEN s[i] ELSE x[i - m]
    BY <1>1, ConcatProperties
<1>3. DOMAIN y = 1..(m + n) /\ y # <<>>
    BY <1>1, <1>2
<1> HIDE DEF S, y, m, n
<1>4. /\ \A i \in 1..m : i \in 1..(m + n) /\ y[i] = s[i]
      /\ \A i \in 1..n : i + m \in 1..(m + n) /\ y[i + m] = x[i]
      /\ \A i \in 1..(m + n) : i \in 1..m \/ (i - m \in 1..n /\ (i - m) + m = i)
    BY <1>1, <1>2
<1>5. Plain(y)
  <2>1. ASSUME NEW i \in 1..(m + n) PROVE y[i] = <<y[i][1], Null>> /\ y[i][1] \notin {"scan", "key"}
    <3>1. CASE i \in 1..m
      BY <1>1, <1>4, <3>1 DEF Plain
    <3>2. CASE i - m \in 1..n /\ (i - m) + m = i
      <4>1. y[i] = x[i - m]
        BY <1>4, <3>2
      <4>2. QED
        BY <1>1, <3>2, <4>1 DEF Plain
    <3>3. QED
      BY <1>4, <3>1, <3>2
  <2>2. QED
    BY <1>2, <1>3, <2>1 DEF Plain, S
<1>6. KindsOf(y) = KindsOf(s) \cup KindsOf(x)
  <2>1. ASSUME NEW k \in KindsOf(y) PROVE k \in KindsOf(s) \cup KindsOf(x)
    <3>1. PICK i \in 1..(m + n) : k = y[i][1]
      BY <1>3 DEF KindsOf
    <3>2. CASE i \in 1..m
      BY <1>1, <1>4, <3>1, <3>2 DEF KindsOf
    <3>3. CASE i - m \in 1..n /\ (i - m) + m = i
      <4>1. y[i] = x[i - m]
        BY <1>4, <3>3
      <4>2. QED
        BY <1>1, <3>1, <3>3, <4>1 DEF KindsOf
    <3>4. QED
      BY <1>4, <3>2, <3>3
  <2>2. ASSUME NEW k \in KindsOf(s) PROVE k \in KindsOf(y)
    BY <1>1, <1>3, <1>4 DEF KindsOf
  <2>3. ASSUME NEW k \in KindsOf(x) PROVE k \in KindsOf(y)
    <3>1. PICK i \in 1..n : k = x[i][1]
      BY <1>1 DEF KindsOf
    <3>2. i + m \in DOMAIN y /\ y[i + m] = x[i]
      BY <1>3, <1>4
    <3>3. QED
      BY <3>1, <3>2 DEF KindsOf
  <2>4. QED
    BY <2>1, <2>2, <2>3
<1>7. ASSUME InOrder(s, s), InOrder(x, x),
             ~ \E k \in KindsOf(s) \cap PartKinds : HolderKind(k) \in KindsOf(x)
      PROVE  InOrder(y, y)
  <2>1. SUFFICES ASSUME NEW i \in 1..(m + n), NEW j \in 1..(m + n),
                        y[i][1] \in PartKinds, y[j][1] = HolderKind(y[i][1])
                 PROVE  j < i
    BY <1>3 DEF InOrder
  <2>2. CASE i \in 1..m /\ j \in 1..m
    BY <1>1, <1>4, <1>7, <2>1, <2>2 DEF InOrder
  <2>3. CASE i \in 1..m /\ j \notin 1..m
    <3>1. j - m \in 1..n /\ y[j] = x[j - m] /\ y[i] = s[i]
      BY <1>4, <2>3
    <3>2. y[i][1] \in KindsOf(s) /\ y[j][1] \in KindsOf(x)
      BY <1>1, <2>3, <3>1 DEF KindsOf
    <3>3. QED
      BY <1>7, <2>1, <3>2
  <2>4. CASE i \notin 1..m /\ j \in 1..m
    BY <1>1, <2>4
  <2>5. CASE i \notin 1..m /\ j \notin 1..m
    <3>1. j - m \in 1..n /\ y[j] = x[j - m] /\ i - m \in 1..n /\ y[i] = x[i - m]
      BY <1>4, <2>5
    <3>2. j - m < i - m
      BY <1>1, <1>7, <2>1, <3>1 DEF InOrder
    <3>3. QED
      BY <1>1, <3>2
  <2>6. QED
    BY <2>2, <2>3, <2>4, <2>5
<1>8. QED
    BY <1>5, <1>6, <1>7 DEF y

LEMMA EachIsInOrder ==
    ASSUME NEW kinds \in Seq(QueryKinds),
           \A i, j \in DOMAIN kinds : kinds[i] \in PartKinds /\ kinds[j] = HolderKind(kinds[i]) => j < i
    PROVE  InOrder(Each(kinds), Each(kinds))
<1>1. /\ Each(kinds) \in Seq(QueryKinds \X {Null}) /\ Len(Each(kinds)) = Len(kinds)
      /\ \A i \in 1..Len(kinds) : Each(kinds)[i] = <<kinds[i], Null>>
    BY EachLists
<1>2. DOMAIN Each(kinds) = DOMAIN kinds /\ \A i \in DOMAIN kinds : Each(kinds)[i][1] = kinds[i]
    BY <1>1
<1>3. QED
    BY <1>2 DEF InOrder

LEMMA NoPartsNoOrder ==
    ASSUME NEW s, NEW x, ~ \E k \in KindsOf(s) \cap PartKinds : HolderKind(k) \in KindsOf(x)
    PROVE  InOrder(s, x)
    BY DEF InOrder, KindsOf

(* The chain of tables and their parts.                                    *)
TablesChain == Each(TableParts)
TableKinds == {"table", "column", "index", "fk", "constraint", "trigger"}

LEMMA TablesChainIs ==
    /\ Plain(TablesChain) /\ KindsOf(TablesChain) = TableKinds
    /\ InOrder(TablesChain, TablesChain)
<1>1. TableParts \in Seq(QueryKinds) /\ TableParts # <<>> /\ DOMAIN TableParts = 1..6
  <2>1. Len(TableParts) = 6
    BY DEF TableParts
  <2>2. TableParts \in Seq(QueryKinds)
    BY DEF TableParts, QueryKinds, ObjectKinds
  <2>3. QED
    BY <2>1, <2>2
<1>2. \A i \in DOMAIN TableParts : TableParts[i] \notin {"scan", "key"}
    BY DEF TableParts
<1>3. ToSet(TableParts) = TableKinds
    BY DEF TableParts, ToSet, TableKinds
<1>4. \A j \in 1..6 : TableParts[j] = "table" => j = 1
    BY DEF TableParts
<1>5. \A i \in 1..6 : TableParts[i] \in PartKinds => i > 1 /\ HolderKind(TableParts[i]) = "table"
    BY DEF TableParts, PartKinds, HolderKind
<1>6. \A i, j \in DOMAIN TableParts :
         TableParts[i] \in PartKinds /\ TableParts[j] = HolderKind(TableParts[i]) => j < i
    BY <1>1, <1>4, <1>5
<1>7. QED
    BY <1>1, <1>2, <1>3, <1>6, EachIsPlain, EachIsInOrder DEF TablesChain

LEMMA OneKindChain ==
    ASSUME NEW k \in QueryKinds \ {"scan", "key"}
    PROVE  Plain(Each(<<k>>)) /\ KindsOf(Each(<<k>>)) = {k}
<1>1. <<k>> \in Seq(QueryKinds) /\ <<k>> # <<>> /\ DOMAIN <<k>> = {1} /\ ToSet(<<k>>) = {k}
    BY DEF ToSet
<1>2. QED
    BY <1>1, EachIsPlain

(* A chain of two or more kinds of which only the last may be a part.      *)
ProceduresChain == Each(<<"procedure", "argument">>)

LEMMA ProceduresChainIs ==
    /\ Plain(ProceduresChain) /\ KindsOf(ProceduresChain) = {"procedure", "argument"}
    /\ InOrder(ProceduresChain, ProceduresChain)
<1> DEFINE kinds == <<"procedure", "argument">>
<1>1. kinds \in Seq(QueryKinds) /\ kinds # <<>> /\ DOMAIN kinds = 1..2
  <2>1. kinds \in Seq(QueryKinds)
    BY DEF QueryKinds, ObjectKinds
  <2>2. QED
    BY <2>1
<1>2. kinds[1] = "procedure" /\ kinds[2] = "argument"
    OBVIOUS
<1>3. \A i \in DOMAIN kinds : kinds[i] \notin {"scan", "key"}
    BY <1>1, <1>2
<1>4. ToSet(kinds) = {"procedure", "argument"}
    BY <1>1, <1>2 DEF ToSet
<1>5. \A i, j \in DOMAIN kinds : kinds[i] \in PartKinds /\ kinds[j] = HolderKind(kinds[i]) => j < i
    BY <1>1, <1>2 DEF PartKinds, HolderKind
<1> HIDE DEF kinds
<1>6. QED
    BY <1>1, <1>3, <1>4, <1>5, EachIsPlain, EachIsInOrder DEF ProceduresChain, kinds

(* The chains of each engine.                                              *)
LEMMA PostgresChains ==
    ASSUME NEW c
    PROVE  \A s, x \in PostgresWork(c) : Plain(s) /\ InOrder(s, x)
<1> DEFINE others == {"view", "matview", "function", "sequence", "type", "extension", "procedure"}
<1>1. PostgresOthers(c) \subseteq others
    BY DEF PostgresOthers
<1>2. \A s \in PostgresWork(c) : s = TablesChain \/ \E k \in others : s = Each(<<k>>)
    BY <1>1 DEF PostgresWork, PostgresTables, TablesChain
<1>3. others \subseteq QueryKinds \ {"scan", "key"} /\ others \cap PartKinds = {} /\ "table" \notin others
    BY DEF QueryKinds, ObjectKinds, PartKinds
<1>4. ASSUME NEW k \in others PROVE Plain(Each(<<k>>)) /\ KindsOf(Each(<<k>>)) = {k}
    BY <1>3, OneKindChain
<1>5. \A k \in TableKinds \cap PartKinds : HolderKind(k) = "table"
    BY DEF TableKinds, PartKinds, HolderKind
<1> HIDE DEF others
<1>6. ASSUME NEW s \in PostgresWork(c), NEW x \in PostgresWork(c)
      PROVE  Plain(s) /\ InOrder(s, x)
  <2>1. CASE s = TablesChain /\ x = TablesChain
    BY <2>1, TablesChainIs
  <2>2. ASSUME s = TablesChain, NEW k \in others, x = Each(<<k>>) PROVE Plain(s) /\ InOrder(s, x)
    BY <1>3, <1>4, <1>5, <2>2, TablesChainIs, NoPartsNoOrder
  <2>3. ASSUME NEW k \in others, s = Each(<<k>>) PROVE Plain(s) /\ InOrder(s, x)
    BY <1>3, <1>4, <2>3, NoPartsNoOrder
  <2>4. QED
    BY <1>2, <2>1, <2>2, <2>3
<1>7. QED
    BY <1>6

LEMMA MySqlChains ==
    ASSUME NEW c
    PROVE  \A s, x \in MySqlWork(c) : Plain(s) /\ InOrder(s, x)
<1> DEFINE others == {"view", "function", "event", "sequence"}
<1>1. \A s \in MySqlWork(c) : \/ s = TablesChain \/ s = ProceduresChain
                              \/ \E k \in others : s = Each(<<k>>)
    BY DEF MySqlWork, MySqlOthers, MySqlTables, TablesChain, ProceduresChain
<1>2. /\ others \subseteq QueryKinds \ {"scan", "key"} /\ others \cap PartKinds = {}
      /\ "table" \notin others /\ "procedure" \notin others
    BY DEF QueryKinds, ObjectKinds, PartKinds
<1>3. ASSUME NEW k \in others PROVE Plain(Each(<<k>>)) /\ KindsOf(Each(<<k>>)) = {k}
    BY <1>2, OneKindChain
<1>4. /\ \A k \in TableKinds \cap PartKinds : HolderKind(k) = "table"
      /\ \A k \in {"procedure", "argument"} \cap PartKinds : HolderKind(k) = "procedure"
      /\ "procedure" \notin TableKinds /\ "table" \notin {"procedure", "argument"}
    BY DEF TableKinds, PartKinds, HolderKind
<1> HIDE DEF others
<1>5. ASSUME NEW s \in MySqlWork(c), NEW x \in MySqlWork(c)
      PROVE  Plain(s) /\ InOrder(s, x)
  <2>1. CASE s = x /\ (s = TablesChain \/ s = ProceduresChain)
    BY <2>1, TablesChainIs, ProceduresChainIs
  <2>2. CASE (s = TablesChain /\ x = ProceduresChain) \/ (s = ProceduresChain /\ x = TablesChain)
    BY <1>4, <2>2, TablesChainIs, ProceduresChainIs, NoPartsNoOrder
  <2>3. ASSUME s = TablesChain, NEW k \in others, x = Each(<<k>>) PROVE Plain(s) /\ InOrder(s, x)
    BY <1>2, <1>3, <1>4, <2>3, TablesChainIs, NoPartsNoOrder
  <2>4. ASSUME s = ProceduresChain, NEW k \in others, x = Each(<<k>>) PROVE Plain(s) /\ InOrder(s, x)
    BY <1>2, <1>3, <1>4, <2>4, ProceduresChainIs, NoPartsNoOrder
  <2>5. ASSUME NEW k \in others, s = Each(<<k>>) PROVE Plain(s) /\ InOrder(s, x)
    BY <1>2, <1>3, <2>5, NoPartsNoOrder
  <2>6. QED
    BY <1>1, <2>1, <2>2, <2>3, <2>4, <2>5
<1>6. QED
    BY <1>5

(* The second part of Oracle's chain, and of SQL Server's.                 *)
OracleRest ==
    <<"view", "matview", "function", "procedure", "argument", "sequence", "type", "package", "job">>

LEMMA OracleChains ==
    \A s \in OracleWork : /\ Plain(s) /\ InOrder(s, s)
                          /\ KindsOf(s) = TableKinds \cup ToSet(OracleRest)
<1>1. OracleRest \in Seq(QueryKinds) /\ OracleRest # <<>> /\ DOMAIN OracleRest = 1..9
  <2>1. OracleRest \in Seq(QueryKinds)
    BY DEF OracleRest, QueryKinds, ObjectKinds
  <2>2. Len(OracleRest) = 9
    BY DEF OracleRest
  <2>3. QED
    BY <2>1, <2>2
<1>2. \A i \in DOMAIN OracleRest : OracleRest[i] \notin {"scan", "key", "table"}
    BY <1>1 DEF OracleRest
<1>3. /\ \A i \in 1..9 : OracleRest[i] \in PartKinds => i = 5 /\ HolderKind(OracleRest[i]) = "procedure"
      /\ \A j \in 1..9 : OracleRest[j] = "procedure" => j = 4
    BY DEF OracleRest, PartKinds, HolderKind
<1>4. \A i, j \in DOMAIN OracleRest :
         OracleRest[i] \in PartKinds /\ OracleRest[j] = HolderKind(OracleRest[i]) => j < i
    BY <1>1, <1>3
<1>5. Plain(Each(OracleRest)) /\ InOrder(Each(OracleRest), Each(OracleRest))
    BY <1>1, <1>2, <1>4, EachIsPlain, EachIsInOrder
<1>6. "table" \notin KindsOf(Each(OracleRest)) /\ KindsOf(Each(OracleRest)) = ToSet(OracleRest)
  <2>1. KindsOf(Each(OracleRest)) = ToSet(OracleRest)
    BY <1>1, <1>2, EachIsPlain
  <2>2. QED
    BY <1>2, <2>1 DEF ToSet
<1>7. \A k \in TableKinds \cap PartKinds : HolderKind(k) = "table"
    BY DEF TableKinds, PartKinds, HolderKind
<1>8. \A s \in OracleWork : s = TablesChain \o Each(OracleRest)
    BY DEF OracleWork, OracleTables, OracleRest, TablesChain
<1>9. QED
    BY <1>5, <1>6, <1>7, <1>8, TablesChainIs, ConcatIsPlain

LEMMA SqlServerChains ==
    ASSUME NEW c
    PROVE  \A s \in SqlServerWork(c) :
              /\ Plain(s) /\ InOrder(s, s)
              /\ TableKinds \cup {"view", "function", "procedure", "argument", "type", "job"}
                    \subseteq KindsOf(s)
              /\ c.sequences => "sequence" \in KindsOf(s)
<1> DEFINE front == <<"view", "function", "procedure", "argument">>
           back == <<"type", "job">>
           a == Each(front)
           z == Each(back)
           m == Each(<<"sequence">>)
<1>1. /\ Plain(a) /\ InOrder(a, a) /\ KindsOf(a) = {"view", "function", "procedure", "argument"}
  <2>1. front \in Seq(QueryKinds)
    BY DEF QueryKinds, ObjectKinds
  <2>2. Len(front) = 4
    OBVIOUS
  <2>3. front # <<>> /\ DOMAIN front = 1..4
    BY <2>1, <2>2
  <2>4. front[1] = "view" /\ front[2] = "function" /\ front[3] = "procedure" /\ front[4] = "argument"
    OBVIOUS
  <2>5. ToSet(front) = {"view", "function", "procedure", "argument"}
    BY <2>3, <2>4 DEF ToSet
  <2>6. \A i \in DOMAIN front : front[i] \notin {"scan", "key"}
    BY <2>3, <2>4
  <2>7. \A i, j \in DOMAIN front : front[i] \in PartKinds /\ front[j] = HolderKind(front[i]) => j < i
    BY <2>3, <2>4 DEF PartKinds, HolderKind
  <2> HIDE DEF front
  <2>8. QED
    BY <2>1, <2>3, <2>5, <2>6, <2>7, EachIsPlain, EachIsInOrder
<1>2. Plain(z) /\ KindsOf(z) = {"type", "job"}
  <2>1. back \in Seq(QueryKinds)
    BY DEF QueryKinds, ObjectKinds
  <2>2. Len(back) = 2
    OBVIOUS
  <2>3. back # <<>> /\ DOMAIN back = 1..2
    BY <2>1, <2>2
  <2>4. back[1] = "type" /\ back[2] = "job"
    OBVIOUS
  <2>5. ToSet(back) = {"type", "job"} /\ \A i \in DOMAIN back : back[i] \notin {"scan", "key"}
    BY <2>3, <2>4 DEF ToSet
  <2> HIDE DEF back
  <2>6. QED
    BY <2>1, <2>3, <2>5, EachIsPlain
<1>3. Plain(m) /\ KindsOf(m) = {"sequence"}
    BY OneKindChain DEF QueryKinds, ObjectKinds
<1> HIDE DEF a, z, m
<1>4. InOrder(z, z) /\ InOrder(m, m)
    BY <1>2, <1>3, NoPartsNoOrder DEF PartKinds
<1>5. Plain(a \o m) /\ InOrder(a \o m, a \o m) /\ KindsOf(a \o m) = KindsOf(a) \cup {"sequence"}
  <2>1. ~ \E k \in KindsOf(a) \cap PartKinds : HolderKind(k) \in KindsOf(m)
    BY <1>1, <1>3 DEF PartKinds, HolderKind
  <2>2. QED
    BY <1>1, <1>3, <1>4, <2>1, ConcatIsPlain
<1>6. ASSUME NEW y, Plain(y), InOrder(y, y), KindsOf(y) \subseteq KindsOf(a) \cup {"sequence"}
      PROVE  /\ Plain(y \o z) /\ InOrder(y \o z, y \o z)
             /\ KindsOf(y \o z) = KindsOf(y) \cup {"type", "job"}
  <2>1. ~ \E k \in KindsOf(y) \cap PartKinds : HolderKind(k) \in KindsOf(z)
    BY <1>1, <1>2, <1>6 DEF PartKinds, HolderKind
  <2>2. QED
    BY <1>2, <1>4, <1>6, <2>1, ConcatIsPlain
<1>7. ASSUME NEW y, Plain(y), InOrder(y, y), KindsOf(y) \subseteq KindsOf(a) \cup {"sequence", "type", "job"}
      PROVE  /\ Plain(TablesChain \o y) /\ InOrder(TablesChain \o y, TablesChain \o y)
             /\ KindsOf(TablesChain \o y) = TableKinds \cup KindsOf(y)
  <2>1. ~ \E k \in KindsOf(TablesChain) \cap PartKinds : HolderKind(k) \in KindsOf(y)
    BY <1>1, <1>7, TablesChainIs DEF TableKinds, PartKinds, HolderKind
  <2>2. QED
    BY <1>7, <2>1, TablesChainIs, ConcatIsPlain
<1>8. \A s \in SqlServerWork(c) :
         \/ s = TablesChain \o ((a \o m) \o z)
         \/ s = TablesChain \o ((a \o <<>>) \o z) /\ ~c.sequences
    BY DEF SqlServerWork, SqlServerTables, SqlServerOthers, TablesChain, a, m, z
<1>9. a \o <<>> = a
  <2>1. a \in Seq(QueryKinds \X {Null})
    BY <1>1 DEF Plain
  <2>2. QED
    BY <2>1, ConcatEmptySeq
<1>10. /\ Plain(TablesChain \o ((a \o m) \o z))
       /\ InOrder(TablesChain \o ((a \o m) \o z), TablesChain \o ((a \o m) \o z))
       /\ KindsOf(TablesChain \o ((a \o m) \o z)) =
              TableKinds \cup (KindsOf(a) \cup {"sequence"} \cup {"type", "job"})
    BY <1>5, <1>6, <1>7
<1>11. /\ Plain(TablesChain \o (a \o z)) /\ InOrder(TablesChain \o (a \o z), TablesChain \o (a \o z))
       /\ KindsOf(TablesChain \o (a \o z)) = TableKinds \cup (KindsOf(a) \cup {"type", "job"})
    BY <1>1, <1>6, <1>7
<1>12. QED
    BY <1>1, <1>8, <1>9, <1>10, <1>11

LEMMA SqliteChains ==
    /\ \A s \in SqliteWork : Plain(s) /\ KindsOf(s) \subseteq {"table", "view", "trigger"}
<1>1. \A s \in SqliteWork : \E k \in {"table", "view", "trigger"} : s = Each(<<k>>)
    BY DEF SqliteWork
<1>2. {"table", "view", "trigger"} \subseteq QueryKinds \ {"scan", "key"}
    BY DEF QueryKinds, ObjectKinds
<1>3. QED
    BY <1>1, <1>2, OneKindChain

LEMMA MongoChains ==
    /\ \A s \in MongoWork : Plain(s) /\ KindsOf(s) = {"collection", "view", "dbstats"}
<1> DEFINE kinds == <<"collection", "view", "dbstats">>
<1>1. kinds \in Seq(QueryKinds)
    BY DEF QueryKinds, ObjectKinds
<1>2. Len(kinds) = 3
    OBVIOUS
<1>3. kinds # <<>> /\ DOMAIN kinds = 1..3
    BY <1>1, <1>2
<1>4. kinds[1] = "collection" /\ kinds[2] = "view" /\ kinds[3] = "dbstats"
    OBVIOUS
<1>5. ToSet(kinds) = {"collection", "view", "dbstats"} /\ \A i \in DOMAIN kinds : kinds[i] \notin {"scan", "key"}
    BY <1>3, <1>4 DEF ToSet
<1>6. MongoWork = {Each(kinds)}
    BY DEF MongoWork
<1> HIDE DEF kinds
<1>7. QED
    BY <1>1, <1>3, <1>5, <1>6, EachIsPlain

LEMMA RedisChains ==
    ASSUME NEW c
    PROVE  Plain(RedisInfo(c)) /\ RedisWork(c) = {RedisInfo(c) \o <<<<"scan", {}>>>>}
<1> DEFINE kinds == <<"info_server", "info_keyspace", "info_memory", "info_replication">>
<1>1. kinds \in Seq(QueryKinds)
    BY DEF QueryKinds, ObjectKinds
<1>2. Len(kinds) = 4
    OBVIOUS
<1>3. kinds # <<>> /\ DOMAIN kinds = 1..4
    BY <1>1, <1>2
<1>4. \A i \in DOMAIN kinds : kinds[i] \notin {"scan", "key"}
    BY <1>3
<1> DEFINE a == Each(kinds)
           m == Each(<<"acl">>)
<1>5. RedisInfo(c) = a \o m \/ RedisInfo(c) = a \o <<>>
    BY DEF RedisInfo
<1> HIDE DEF kinds
<1>6. Plain(a)
    BY <1>1, <1>3, <1>4, EachIsPlain
<1>7. Plain(m)
    BY OneKindChain DEF QueryKinds, ObjectKinds
<1> HIDE DEF a, m
<1>8. a \o <<>> = a
  <2>1. a \in Seq(QueryKinds \X {Null})
    BY <1>6 DEF Plain
  <2>2. QED
    BY <2>1, ConcatEmptySeq
<1>9. Plain(RedisInfo(c))
    BY <1>5, <1>6, <1>7, <1>8, ConcatIsPlain
<1>10. QED
    BY <1>9 DEF RedisWork
-----------------------------------------------------------------------------
(* The operators that a step leaves as they are.                           *)
LEMMA WorkStays ==
    ASSUME server' = server, caps' = caps
    PROVE  Engine' = Engine /\ Work' = Work /\ AskedLater' = AskedLater
<1>1. Engine' = Engine
    BY DEF Engine
<1>2. Work' = Work
    BY <1>1 DEF Work
<1>3. AskedLater' = AskedLater
    BY <1>1 DEF AskedLater
<1>4. QED
    BY <1>1, <1>2, <1>3

ListsEverything == Engine \in {"mongodb", "redis"}

LEMMA ListsIs ==
    ASSUME NEW o, NEW objects
    PROVE  /\ Engine = "postgresql" =>
                 Lists(o, objects) = IF o.kind \in TableKinds THEN PostgresListsPart(o, objects)
                                                              ELSE PostgresListsOther(o)
           /\ Engine = "mysql" => Lists(o, objects) = MySqlLists(o, server.database)
           /\ Engine = "sqlite" => Lists(o, objects) = SqliteLists(o)
           /\ Engine = "oracle" => Lists(o, objects) = OracleLists(o)
           /\ Engine = "sqlserver" =>
                 Lists(o, objects) = IF o.kind \in TableKinds THEN SqlServerListsPart(o)
                                                              ELSE SqlServerListsOther(o)
           /\ ListsEverything => Lists(o, objects) = TRUE
<1>1. ToSet(TableParts) = TableKinds
    BY DEF ToSet, TableParts, TableKinds
<1>2. Engine = "postgresql" =>
                 Lists(o, objects) = IF o.kind \in TableKinds THEN PostgresListsPart(o, objects)
                                                              ELSE PostgresListsOther(o)
    BY <1>1 DEF Lists
<1>3. Engine = "sqlserver" =>
                 Lists(o, objects) = IF o.kind \in TableKinds THEN SqlServerListsPart(o)
                                                              ELSE SqlServerListsOther(o)
    BY <1>1 DEF Lists
<1>4. Engine = "mysql" => Lists(o, objects) = MySqlLists(o, server.database)
    BY DEF Lists
<1>5. Engine = "sqlite" => Lists(o, objects) = SqliteLists(o)
    BY DEF Lists
<1>6. Engine = "oracle" => Lists(o, objects) = OracleLists(o)
    BY DEF Lists
<1>7. ListsEverything => Lists(o, objects) = TRUE
    BY DEF Lists, ListsEverything
<1>8. QED
    BY <1>2, <1>3, <1>4, <1>5, <1>6, <1>7

LEMMA ListsStays ==
    ASSUME server' = server, NEW o, NEW objects
    PROVE  Lists(o, objects)' = Lists(o, objects)
<1>1. Engine' = Engine
    BY DEF Engine
<1>2. QED
    BY <1>1 DEF Lists

LEMMA KeepsStays ==
    ASSUME server' = server, NEW o, NEW rows
    PROVE  Keeps(o, rows)' = Keeps(o, rows)
<1>1. Engine' = Engine
    BY DEF Engine
<1>2. QED
    BY <1>1 DEF Keeps, Files

LEMMA GroupedStays ==
    ASSUME server' = server, NEW rows
    PROVE  Grouped(rows)' = Grouped(rows)
<1>1. Engine' = Engine
    BY DEF Engine
<1>2. QED
    BY <1>1 DEF Grouped

LEMMA MeantStays ==
    ASSUME server' = server, caps' = caps, NEW objects
    PROVE  Meant(objects)' = Meant(objects)
<1>1. Work' = Work /\ AskedLater' = AskedLater
    BY WorkStays
<1>2. \A o : Lists(o, objects)' = Lists(o, objects)
    BY ListsStays
<1>3. \A o, rows : Keeps(o, rows)' = Keeps(o, rows)
    BY KeepsStays
<1>4. QED
    BY <1>1, <1>2, <1>3 DEF Meant, Listed, Asked

(* What a row is filed under, engine by engine.                            *)
LEMMA FilesIs ==
    ASSUME NEW o, NEW rows
    PROVE  /\ ~Child(o) \/ Engine \in {"sqlite", "mongodb"} => Files(o, rows) = {o.on}
           /\ Child(o) /\ Engine = "postgresql" => Files(o, rows) = PostgresFiles(o, rows)
           /\ Child(o) /\ Engine = "mysql" => Files(o, rows) = MySqlFiles(o, rows)
           /\ Child(o) /\ Engine = "oracle" => Files(o, rows) = OracleFiles(o, rows)
           /\ Child(o) /\ Engine = "sqlserver" => Files(o, rows) = SqlServerFiles(o, rows)
           /\ Child(o) /\ Engine = "redis" => Files(o, rows) = {}
    BY DEF Files

(* A row has its object's names and what it was filed under, with all      *)
(* columns of an index or foreign key, but for Oracle's indexes.           *)
LEMMA RowIs ==
    ASSUME NEW o, IsObject(o), NEW on, NEW r, r = Row(o, on)
    PROVE  /\ r.kind = o.kind /\ r.schema = o.schema /\ r.name = o.name /\ r.on = on
           /\ r.kind # "field"
           /\ WithColumns(o) => ToSet(o.keys) \subseteq r.keys
<1>1. /\ o = [kind |-> o.kind, schema |-> o.schema, name |-> o.name, on |-> o.on, keys |-> o.keys]
      /\ o.kind \in ObjectKinds
      /\ o.kind = "fk" => \A i \in DOMAIN o.keys : o.keys[i] = <<o.keys[i][1], o.keys[i][2]>>
    BY DEF IsObject
<1>2. PICK k : k = Columns(o)
    OBVIOUS
<1>3. r = [o EXCEPT !.on = on, !.keys = k]
    BY <1>2 DEF Row
<1>4. r.kind = o.kind /\ r.schema = o.schema /\ r.name = o.name /\ r.on = on /\ r.keys = k
    BY <1>1, <1>3
<1>5. o.kind # "field"
    BY <1>1 DEF ObjectKinds
<1>6. ASSUME WithColumns(o) PROVE ToSet(o.keys) \subseteq k
  <2>1. CASE Engine = "postgresql" /\ o.kind = "fk"
    <3>1. k = PostgresForeignKey(o)
      BY <1>2, <2>1 DEF Columns
    <3>2. QED
      BY <1>1, <2>1, <3>1 DEF PostgresForeignKey, ToSet
  <2>2. CASE ~(Engine = "postgresql" /\ o.kind = "fk")
    <3>1. k = ToSet(o.keys)
      BY <1>2, <1>6, <2>2 DEF Columns, WithColumns
    <3>2. QED
      BY <3>1
  <2>3. QED
    BY <2>1, <2>2
<1>7. QED
    BY <1>4, <1>5, <1>6

(* The rows left when they are grouped by schema.                          *)
GroupedBy(naming, rows) ==
    {r \in rows : r.kind = "job" \/ \E n \in rows : n.kind \in naming /\ n.schema = r.schema}

LEMMA GroupedIs ==
    ASSUME NEW rows
    PROVE  /\ Engine = "postgresql" => Grouped(rows) = GroupedBy(PostgresNames, rows)
           /\ Engine = "oracle" => Grouped(rows) = GroupedBy(OracleNames, rows)
           /\ Engine = "sqlserver" => Grouped(rows) = GroupedBy(SqlServerNames, rows)
           /\ Engine \notin {"postgresql", "oracle", "sqlserver"} => Grouped(rows) = rows
    BY DEF Grouped, GroupedBy

Engines == {"postgresql", "mysql", "sqlite", "oracle", "sqlserver", "mongodb", "redis"}

(* Every query of a fetch as it begins.                                    *)
LEMMA PlainIsQueries ==
    ASSUME NEW s, Plain(s)
    PROVE  /\ s \in Seq(Queries) \ {<<>>} /\ DOMAIN s = 1..Len(s) /\ Len(s) \in Nat \ {0}
           /\ \A i \in DOMAIN s : s[i] = <<s[i][1], Null>> /\ s[i][1] \notin {"scan", "key"}
<1>1. /\ s \in Seq(QueryKinds \X {Null}) /\ s # <<>>
      /\ \A i \in DOMAIN s : s[i] = <<s[i][1], Null>> /\ s[i][1] \notin {"scan", "key"}
    BY DEF Plain
<1> DEFINE P == QueryKinds \X {Null}
<1>2. P \subseteq Queries
    BY DEF Queries
<1> HIDE DEF P
<1>3. DOMAIN s = 1..Len(s) /\ Len(s) \in Nat \ {0} /\ \A i \in 1..Len(s) : s[i] \in P
    BY <1>1 DEF P
<1>4. s \in Seq(Queries)
    BY <1>1, <1>2, <1>3 DEF P
<1>5. QED
    BY <1>1, <1>3, <1>4

LEMMA WorkSound ==
    ASSUME Engine \in Engines
    PROVE  /\ Engine # "redis" => \A s \in Work : Plain(s)
           /\ Nested => \A s, x \in Work : InOrder(s, x)
           /\ Engine = "redis" => \A s \in Work : Plain(RedisInfo(caps)) /\ s = RedisInfo(caps) \o <<<<"scan", {}>>>>
           /\ Engine = "redis" => Work # {}
<1>1. CASE Engine = "postgresql"
  <2>1. Work = PostgresWork(caps)
    BY <1>1, WorkIs
  <2>2. QED
    BY <1>1, <2>1, PostgresChains
<1>2. CASE Engine = "mysql"
  <2>1. Work = MySqlWork(caps)
    BY <1>2, WorkIs
  <2>2. QED
    BY <1>2, <2>1, MySqlChains
<1>3. CASE Engine = "oracle"
  <2>1. Work = OracleWork
    BY <1>3, WorkIs
  <2>2. \A s, x \in OracleWork : s = x
    BY DEF OracleWork
  <2>3. \A s, x \in Work : Plain(s) /\ InOrder(s, x)
    BY <2>1, <2>2, OracleChains
  <2>4. QED
    BY <1>3, <2>3
<1>4. CASE Engine = "sqlserver"
  <2>1. Work = SqlServerWork(caps)
    BY <1>4, WorkIs
  <2>2. \A s, x \in SqlServerWork(caps) : s = x
    BY DEF SqlServerWork
  <2>3. \A s, x \in Work : Plain(s) /\ InOrder(s, x)
    BY <2>1, <2>2, SqlServerChains
  <2>4. QED
    BY <1>4, <2>3
<1>5. CASE Engine = "sqlite"
  <2>1. Work = SqliteWork
    BY <1>5, WorkIs
  <2>2. QED
    BY <1>5, <2>1, SqliteChains DEF Nested
<1>6. CASE Engine = "mongodb"
  <2>1. Work = MongoWork
    BY <1>6, WorkIs
  <2>2. QED
    BY <1>6, <2>1, MongoChains DEF Nested
<1>7. CASE Engine = "redis"
  <2>1. Work = RedisWork(caps)
    BY <1>7, WorkIs
  <2>2. QED
    BY <1>7, <2>1, RedisChains DEF Nested
<1>8. QED
    BY <1>1, <1>2, <1>3, <1>4, <1>5, <1>6, <1>7 DEF Engines

(* The queries of Redis end with the scan.                                 *)
LEMMA RedisWorkIs ==
    ASSUME NEW s, Plain(s), NEW x, x = s \o <<<<"scan", {}>>>>
    PROVE  /\ x \in Seq(Queries) \ {<<>>} /\ DOMAIN x = 1..Len(x) /\ Len(x) \in Nat \ {0}
           /\ x[Len(x)] = <<"scan", {}>>
           /\ \A i \in DOMAIN x : i # Len(x) => x[i][1] \notin {"scan", "key"}
<1> DEFINE last == <<<<"scan", {}>>>>
           m == Len(s)
<1>1. last \in Seq(Queries) /\ Len(last) = 1 /\ last[1] = <<"scan", {}>>
    BY DEF Queries, QueryKinds
<1>2. /\ s \in Seq(Queries) /\ m \in Nat \ {0}
      /\ \A i \in 1..m : s[i][1] \notin {"scan", "key"}
    BY PlainIsQueries
<1> HIDE DEF last, m
<1>3. /\ x \in Seq(Queries) /\ Len(x) = m + 1
      /\ \A i \in 1..(m + 1) : x[i] = IF i <= m THEN s[i] ELSE last[i - m]
    BY <1>1, <1>2, ConcatProperties DEF last, m
<1>4. x[m + 1] = <<"scan", {}>>
    BY <1>1, <1>2, <1>3
<1>5. \A i \in 1..(m + 1) : i # m + 1 => x[i][1] \notin {"scan", "key"}
    BY <1>2, <1>3
<1>6. QED
    BY <1>2, <1>3, <1>4, <1>5

(* The kinds that are asked for as a fetch begins, without a table's name. *)
LEMMA AskedIs ==
    ASSUME Engine \in Engines
    PROVE  /\ Engine # "redis" => \A k \in Asked : \E s \in Work : \E i \in DOMAIN s : s[i] = <<k, Null>>
           /\ Engine = "sqlite" => Asked \subseteq {"table", "view", "trigger"}
           /\ Engine = "mongodb" => Asked \subseteq {"collection", "view", "dbstats"}
<1>1. \A k \in Asked : \E s \in Work : \E i \in DOMAIN s : s[i][1] = k
    BY DEF Asked, ToSet
<1>2. ASSUME Engine # "redis", NEW k \in Asked
      PROVE  \E s \in Work : \E i \in DOMAIN s : s[i] = <<k, Null>>
  <2>1. PICK s \in Work : \E i \in DOMAIN s : s[i][1] = k
    BY <1>1
  <2>2. PICK i \in DOMAIN s : s[i][1] = k
    BY <2>1
  <2>3. s[i] = <<s[i][1], Null>>
    BY <1>2, WorkSound, PlainIsQueries
  <2>4. QED
    BY <2>2, <2>3
<1>3. ASSUME Engine = "sqlite", NEW k \in Asked PROVE k \in {"table", "view", "trigger"}
  <2>1. Work = SqliteWork
    BY <1>3, WorkIs
  <2>2. QED
    BY <1>1, <2>1, SqliteChains DEF KindsOf
<1>4. ASSUME Engine = "mongodb", NEW k \in Asked PROVE k \in {"collection", "view", "dbstats"}
  <2>1. Work = MongoWork
    BY <1>4, WorkIs
  <2>2. QED
    BY <1>1, <2>1, MongoChains DEF KindsOf
<1>5. QED
    BY <1>2, <1>3, <1>4

(* What is listed is so beside more objects, and what is meant is meant of *)
(* more objects.                                                           *)
LEMMA ListsMonotone ==
    ASSUME Engine \in Engines, NEW S, NEW T, S \subseteq T, NEW o, Lists(o, S)
    PROVE  Lists(o, T)
<1>1. CASE Engine = "postgresql"
  <2>1. TableOf(o, o.on[1], S) \subseteq TableOf(o, o.on[1], T)
    BY DEF TableOf
  <2>2. CASE o.kind \in TableKinds
    <3>1. PostgresListsPart(o, S)
      BY <1>1, <2>2, ListsIs
    <3>2. PostgresListsPart(o, T)
      BY <2>1, <3>1 DEF PostgresListsPart
    <3>3. QED
      BY <1>1, <2>2, <3>2, ListsIs
  <2>3. CASE o.kind \notin TableKinds
    <3>1. Lists(o, S) <=> PostgresListsOther(o)
      BY <1>1, <2>3, ListsIs
    <3>2. Lists(o, T) <=> PostgresListsOther(o)
      BY <1>1, <2>3, ListsIs
    <3>3. QED
      BY <3>1, <3>2
  <2>4. QED
    BY <2>2, <2>3
<1>2. CASE Engine = "sqlserver"
  <2>1. CASE o.kind \in TableKinds
    <3>1. Lists(o, S) <=> SqlServerListsPart(o)
      BY <1>2, <2>1, ListsIs
    <3>2. Lists(o, T) <=> SqlServerListsPart(o)
      BY <1>2, <2>1, ListsIs
    <3>3. QED
      BY <3>1, <3>2
  <2>2. CASE o.kind \notin TableKinds
    <3>1. Lists(o, S) <=> SqlServerListsOther(o)
      BY <1>2, <2>2, ListsIs
    <3>2. Lists(o, T) <=> SqlServerListsOther(o)
      BY <1>2, <2>2, ListsIs
    <3>3. QED
      BY <3>1, <3>2
  <2>3. QED
    BY <2>1, <2>2
<1>3. CASE Engine = "mysql"
    BY <1>3, ListsIs
<1>4. CASE Engine = "sqlite"
    BY <1>4, ListsIs
<1>5. CASE Engine = "oracle"
    BY <1>5, ListsIs
<1>6. CASE ListsEverything
    BY <1>6, ListsIs
<1>7. QED
    BY <1>1, <1>2, <1>3, <1>4, <1>5, <1>6 DEF Engines, ListsEverything

(* A child is kept as soon as its holder's row is there.                   *)
LEMMA KeepsFound ==
    ASSUME Engine \in Engines, NEW o, NEW S, NEW rows, Keeps(o, S),
           \A t \in S : t.kind = Holder(o) =>
               \E r \in rows : r.kind = t.kind /\ r.schema = t.schema /\ r.name = t.name
    PROVE  Keeps(o, rows)
<1>1. CASE ~Child(o) \/ Engine \in {"sqlite", "mongodb"}
    BY <1>1, FilesIs DEF Keeps
<1>2. ASSUME NEW schema, o.on \in Under(TableOf(o, schema, S))
      PROVE  o.on \in Under(TableOf(o, schema, rows))
  <2>1. PICK t \in TableOf(o, schema, S) : o.on = <<t.schema, t.name>>
    BY <1>2 DEF Under
  <2>2. t \in S /\ t.kind = Holder(o) /\ t.schema = schema /\ t.name = o.on[2]
    BY <2>1 DEF TableOf
  <2>3. PICK r \in rows : r.kind = t.kind /\ r.schema = t.schema /\ r.name = t.name
    BY <2>2
  <2>4. r \in TableOf(o, schema, rows)
    BY <2>2, <2>3 DEF TableOf
  <2>5. QED
    BY <2>1, <2>3, <2>4 DEF Under
<1>3. CASE Child(o) /\ Engine = "postgresql"
  <2>1. o.on \in Under(TableOf(o, o.on[1], S))
    BY <1>3, FilesIs DEF Keeps, PostgresFiles
  <2>2. QED
    BY <1>2, <1>3, <2>1, FilesIs DEF Keeps, PostgresFiles
<1>4. CASE Child(o) /\ Engine = "mysql"
  <2>1. o.on \in MySqlFiles(o, S)
    BY <1>4, FilesIs DEF Keeps
  <2>2. PICK t \in S : t.kind = Holder(o) /\ t.name = o.on[2] /\ o.on = <<o.schema, t.name>>
    BY <2>1 DEF MySqlFiles
  <2>3. PICK r \in rows : r.kind = t.kind /\ r.name = t.name
    BY <2>2
  <2>4. o.on \in MySqlFiles(o, rows)
    BY <2>2, <2>3 DEF MySqlFiles
  <2>5. QED
    BY <1>4, <2>4, FilesIs DEF Keeps
<1>5. CASE Child(o) /\ Engine = "oracle"
  <2>1. o.on \in Under(TableOf(o, o.schema, S))
    BY <1>5, FilesIs DEF Keeps, OracleFiles
  <2>2. QED
    BY <1>2, <1>5, <2>1, FilesIs DEF Keeps, OracleFiles
<1>6. CASE Child(o) /\ Engine = "sqlserver"
  <2>1. o.on \in Under(TableOf(o, o.on[1], S))
    BY <1>6, FilesIs DEF Keeps, SqlServerFiles
  <2>2. QED
    BY <1>2, <1>6, <2>1, FilesIs DEF Keeps, SqlServerFiles
<1>7. CASE Child(o) /\ Engine = "redis"
    BY <1>7, FilesIs DEF Keeps
<1>8. QED
    BY <1>1, <1>3, <1>4, <1>5, <1>6, <1>7 DEF Engines

(* More objects, more that is meant and reported.                          *)
LEMMA MeantMonotone ==
    ASSUME Engine \in Engines, NEW S, NEW T, S \subseteq T
    PROVE  Meant(S) \subseteq Meant(T)
<1>1. Listed(S) \subseteq Listed(T)
  <2>1. \A o : Lists(o, S) => Lists(o, T)
    BY ListsMonotone
  <2>2. QED
    BY <2>1 DEF Listed
<1>2. ASSUME NEW o \in Meant(S) PROVE o \in Meant(T)
  <2>1. /\ o \in Listed(S) /\ Keeps(o, Listed(S))
        /\ Child(o) /\ o.kind \in AskedLater => \E p \in Parent(o, Listed(S)) : p.kind \in {"table", "collection"}
    BY <1>2 DEF Meant
  <2>2. Keeps(o, Listed(T))
    BY <1>1, <2>1, KeepsFound
  <2>3. Parent(o, Listed(S)) \subseteq Parent(o, Listed(T))
    BY <1>1 DEF Parent
  <2>4. QED
    BY <1>1, <2>1, <2>2, <2>3 DEF Meant
<1>3. QED
    BY <1>2

LEMMA GroupedMonotone ==
    ASSUME NEW S, NEW T, S \subseteq T
    PROVE  Grouped(S) \subseteq Grouped(T) /\ Grouped(S) \subseteq S
<1>1. \A naming : GroupedBy(naming, S) \subseteq GroupedBy(naming, T) /\ GroupedBy(naming, S) \subseteq S
    BY DEF GroupedBy
<1>2. QED
    BY <1>1, GroupedIs

(* When the rows answer everything that is meant, they still do after they *)
(* are grouped.                                                            *)
LEMMA GroupedAnswers ==
    ASSUME NEW M, NEW rows, Engine \in {"postgresql", "oracle", "sqlserver"},
           \A o \in M : Answered(o, rows)
    PROVE  \A o \in Grouped(M) : Answered(o, Grouped(rows))
<1>1. PICK naming : Grouped(M) = GroupedBy(naming, M) /\ Grouped(rows) = GroupedBy(naming, rows)
    BY GroupedIs
<1>2. SUFFICES ASSUME NEW o \in GroupedBy(naming, M)
               PROVE  Answered(o, GroupedBy(naming, rows))
    BY <1>1
<1>3. o \in M /\ (o.kind = "job" \/ \E n \in M : n.kind \in naming /\ n.schema = o.schema)
    BY <1>2 DEF GroupedBy
<1>4. PICK r \in rows : Same(r, o) /\ (WithColumns(o) => ToSet(o.keys) \subseteq r.keys)
    BY <1>3 DEF Answered
<1>5. r \in GroupedBy(naming, rows)
  <2>1. CASE o.kind = "job"
    BY <1>4, <2>1 DEF Same, GroupedBy
  <2>2. ASSUME NEW n \in M, n.kind \in naming, n.schema = o.schema PROVE r \in GroupedBy(naming, rows)
    <3>1. PICK t \in rows : Same(t, n)
      BY DEF Answered
    <3>2. QED
      BY <1>4, <2>2, <3>1 DEF Same, GroupedBy
  <2>3. QED
    BY <1>3, <2>1, <2>2
<1>6. QED
    BY <1>4, <1>5 DEF Answered

(* The objects of a server.                                                *)
LEMMA ObjectsOf ==
    ASSUME server \in Servers, catalog \subseteq server.objects
    PROVE  /\ Engine \in Engines /\ IsFiniteSet(server.objects) /\ IsFiniteSet(Names)
           /\ \A o \in server.objects : IsObject(o) /\ OwnedWithTable(Engine, o) /\ Exists(server, o.kind)
           /\ \A o \in catalog : IsObject(o) /\ o.name \in Names
<1>1. /\ Engine \in Engines /\ IsFiniteSet(server.objects)
      /\ \A o \in server.objects : IsObject(o) /\ OwnedWithTable(Engine, o) /\ Exists(server, o.kind)
    BY DriversAssumption DEF Engine, Engines
<1> DEFINE O == server.objects
           f == [o \in O |-> o.name]
<1>2. f \in Surjection(O, Names)
    BY DEF Surjection, Names
<1> HIDE DEF f, O
<1>3. IsFiniteSet(Names)
    BY <1>1, <1>2, FS_Surjection DEF O
<1>4. QED
    BY <1>1, <1>3 DEF Names

(* What a part's row may be filed under: its own table or, in Oracle, one  *)
(* of its owner's.                                                         *)
LEMMA FilesAre ==
    ASSUME server \in Servers, catalog \subseteq server.objects, NEW o \in catalog, NEW rows,
           NEW on \in Files(o, rows)
    PROVE  \/ on = o.on
           \/ /\ Engine = "oracle" /\ o.kind \in {"index", "trigger"} /\ o.schema # o.on[1]
              /\ on = <<o.schema, o.on[2]>>
<1>1. Engine \in Engines /\ IsObject(o) /\ OwnedWithTable(Engine, o)
    BY ObjectsOf
<1>2. Child(o) => o.on = <<o.on[1], o.on[2]>>
    BY <1>1 DEF IsObject
<1>3. \A schema : \A x \in Under(TableOf(o, schema, rows)) : x = <<schema, o.on[2]>>
    BY DEF Under, TableOf
<1>4. CASE ~Child(o) \/ Engine \in {"sqlite", "mongodb"}
    BY <1>4, FilesIs
<1>5. CASE Child(o) /\ Engine = "postgresql"
    BY <1>2, <1>3, <1>5, FilesIs DEF PostgresFiles
<1>6. CASE Child(o) /\ Engine = "mysql"
  <2>1. on = <<o.schema, o.on[2]>>
    BY <1>6, FilesIs DEF MySqlFiles
  <2>2. o.schema = o.on[1]
    BY <1>1, <1>6 DEF OwnedWithTable
  <2>3. QED
    BY <1>2, <1>6, <2>1, <2>2
<1>7. CASE Child(o) /\ Engine = "oracle"
  <2>1. on = <<o.schema, o.on[2]>>
    BY <1>3, <1>7, FilesIs DEF OracleFiles
  <2>2. CASE o.schema = o.on[1]
    BY <1>2, <1>7, <2>1, <2>2
  <2>3. CASE o.schema # o.on[1]
    BY <1>1, <1>7, <2>1, <2>3 DEF OwnedWithTable
  <2>4. QED
    BY <2>2, <2>3
<1>8. CASE Child(o) /\ Engine = "sqlserver"
    BY <1>2, <1>3, <1>8, FilesIs DEF SqlServerFiles
<1>9. CASE Child(o) /\ Engine = "redis"
    BY <1>9, FilesIs
<1>10. QED
    BY <1>1, <1>4, <1>5, <1>6, <1>7, <1>8, <1>9 DEF Engines

(* Rows tell of what is in the catalogue.                                  *)
RowsKnown(objects, rows) ==
    \A r \in rows : \E o \in objects : (Tells(r, o) /\ r.kind # "field") \/ FieldOf(r, o)

(* A sample is a list of documents of the collection, all of them when     *)
(* there are no more than are sampled.                                     *)
LEMMA SampleIs ==
    ASSUME NEW c, IsObject(c), c.kind = "collection", NEW docs \in MongoSamples(c.keys, SampleDocs)
    PROVE  /\ IsList(docs) /\ ToSet(docs) \subseteq ToSet(c.keys)
           /\ \A n \in DOMAIN docs : IsList(docs[n])
           /\ docs = c.keys \/ Len(c.keys) > SampleDocs
<1>1. IsList(c.keys) /\ \A n \in DOMAIN c.keys : IsList(c.keys[n])
    BY DEF IsObject
<1>2. Len(c.keys) \in Nat /\ SampleDocs \in Nat \ {0}
    BY <1>1, DriversAssumption DEF IsList
<1>3. CASE Len(c.keys) <= SampleDocs
    BY <1>1, <1>3 DEF MongoSamples
<1>4. CASE ~(Len(c.keys) <= SampleDocs)
  <2>1. docs \in [1..SampleDocs -> ToSet(c.keys)]
    BY <1>4 DEF MongoSamples
  <2>2. docs \in Seq(ToSet(c.keys)) /\ Len(docs) = SampleDocs /\ DOMAIN docs = 1..SampleDocs
    BY <1>2, <2>1
  <2>3. IsList(docs)
    BY <1>2, <2>1, <2>2 DEF IsList
  <2>4. \A n \in DOMAIN docs : docs[n] \in ToSet(c.keys)
    BY <2>1
  <2>5. \A d \in ToSet(c.keys) : IsList(d)
    BY <1>1 DEF ToSet
  <2>6. ToSet(docs) \subseteq ToSet(c.keys)
    BY <2>4 DEF ToSet
  <2>7. QED
    BY <1>2, <1>4, <2>3, <2>4, <2>5, <2>6
<1>5. QED
    BY <1>3, <1>4

LEMMA FieldsKnown ==
    ASSUME NEW c, IsObject(c), c.kind = "collection", NEW docs \in MongoSamples(c.keys, SampleDocs),
           NEW r \in MongoFields(c, docs)
    PROVE  FieldOf(r, c)
<1>1. PICK path \in UNION {ToSet(doc) : doc \in ToSet(docs)} :
         r = [kind |-> "field", schema |-> c.schema, name |-> path, on |-> <<c.schema, c.name>>,
              keys |-> IF Occurrences(docs, path) < Len(docs) THEN {"optional"} ELSE {}]
    BY DEF MongoFields
<1>2. /\ r.kind = "field" /\ r.name = path /\ r.on = <<c.schema, c.name>>
      /\ r.keys = IF Occurrences(docs, path) < Len(docs) THEN {"optional"} ELSE {}
    BY <1>1
<1>3. /\ IsList(docs) /\ ToSet(docs) \subseteq ToSet(c.keys)
      /\ \A n \in DOMAIN docs : IsList(docs[n])
      /\ docs = c.keys \/ Len(c.keys) > SampleDocs
    BY SampleIs
<1>4. ASSUME r.keys = {} PROVE Everywhere(r, c)
  <2>1. ~(Occurrences(docs, path) < Len(docs))
    BY <1>2, <1>4
  <2>2. \/ \A doc \in ToSet(docs) : path \in ToSet(doc)
        \/ \E doc \in ToSet(docs) : \E i, j \in DOMAIN doc : i # j /\ doc[i] = path /\ doc[j] = path
    BY <1>3, <2>1, CountedEverywhere
  <2>3. QED
    BY <1>2, <1>3, <2>2 DEF Everywhere
<1>5. QED
    BY <1>1, <1>2, <1>3, <1>4 DEF FieldOf

(* Only the rows about fields are sampled.                                 *)
LEMMA AnswersAre ==
    ASSUME NEW q, NEW rows \in Answers(q)
    PROVE  /\ \/ rows = Rows(q)
              \/ /\ q[1] = "field"
                 /\ \E c \in catalog : /\ c.kind = "collection"
                                       /\ \E docs \in MongoSamples(c.keys, SampleDocs) : rows = MongoFields(c, docs)
           /\ q[1] # "field" => rows = Rows(q)
<1>1. PICK named : named = {c \in catalog : c.kind = "collection" /\ c.name = q[2]}
    OBVIOUS
<1>2. Answers(q) = IF q[1] = "field" /\ named # {}
                   THEN UNION {{MongoFields(c, docs) : docs \in MongoSamples(c.keys, SampleDocs)} : c \in named}
                   ELSE {Rows(q)}
    BY <1>1 DEF Answers
<1>3. CASE q[1] = "field" /\ named # {}
  <2>1. PICK c \in named : rows \in {MongoFields(c, docs) : docs \in MongoSamples(c.keys, SampleDocs)}
    BY <1>2, <1>3
  <2>2. c \in catalog /\ c.kind = "collection"
    BY <1>1
  <2>3. QED
    BY <1>3, <2>1, <2>2
<1>4. CASE ~(q[1] = "field" /\ named # {})
    BY <1>2, <1>4
<1>5. QED
    BY <1>3, <1>4

LEMMA RowsAreKnown ==
    ASSUME server \in Servers, catalog \subseteq server.objects, NEW q, NEW rows \in Answers(q)
    PROVE  RowsKnown(catalog, rows) /\ (q[1] # "field" => \A r \in rows : r.kind = q[1])
<1>1. \A o \in catalog : IsObject(o)
    BY ObjectsOf
<1>2. ASSUME NEW r \in Rows(q)
      PROVE  (\E o \in catalog : Tells(r, o) /\ r.kind # "field") /\ r.kind = q[1]
  <2>1. PICK o \in catalog : o.kind = q[1] /\ \E on \in Files(o, got) : r = Row(o, on)
    BY <1>2 DEF Rows
  <2>2. PICK on \in Files(o, got) : r = Row(o, on)
    BY <2>1
  <2>3. r.kind = o.kind /\ r.schema = o.schema /\ r.name = o.name /\ r.on = on /\ r.kind # "field"
    BY <1>1, <2>2, RowIs
  <2>4. Tells(r, o)
    BY <2>2, <2>3, FilesAre DEF Tells, Same, Misfiled
  <2>5. QED
    BY <2>1, <2>3, <2>4
<1>3. ASSUME NEW c \in catalog, c.kind = "collection", NEW docs \in MongoSamples(c.keys, SampleDocs),
             NEW r \in MongoFields(c, docs)
      PROVE  FieldOf(r, c)
    BY <1>1, <1>3, FieldsKnown
<1>4. CASE rows = Rows(q)
    BY <1>2, <1>4 DEF RowsKnown
<1>5. ASSUME q[1] = "field", NEW c \in catalog, c.kind = "collection",
             NEW docs \in MongoSamples(c.keys, SampleDocs), rows = MongoFields(c, docs)
      PROVE  RowsKnown(catalog, rows)
    BY <1>3, <1>5 DEF RowsKnown
<1>6. QED
    BY <1>2, <1>4, <1>5, AnswersAre

(* The kind whose rows are followed by queries of their own.               *)
Owner == CASE Engine = "sqlite" -> "table" [] Engine = "mongodb" -> "collection" [] OTHER -> Null

(* The queries that follow a table's or a collection's.                    *)
LEMMA EachOfNames ==
    ASSUME NEW kinds \in Seq(QueryKinds), kinds # <<>>, NEW names \in Seq(Names)
    PROVE  /\ EachOf(kinds, names) \in Seq(Queries)
           /\ \A i \in DOMAIN EachOf(kinds, names) : EachOf(kinds, names)[i][1] \in ToSet(kinds)
           /\ \A k \in ToSet(kinds) : \A b \in DOMAIN names : \E i \in DOMAIN EachOf(kinds, names) :
                 EachOf(kinds, names)[i] = <<k, names[b]>>
<1> DEFINE F == EachOf(kinds, names)
<1>1. /\ F \in Seq(QueryKinds \X Names)
      /\ \A i \in DOMAIN F : \E a \in DOMAIN kinds, b \in DOMAIN names : F[i] = <<kinds[a], names[b]>>
      /\ \A a \in DOMAIN kinds, b \in DOMAIN names : \E i \in DOMAIN F : F[i] = <<kinds[a], names[b]>>
    BY EachOfLists DEF F
<1> HIDE DEF F
<1> DEFINE P == QueryKinds \X Names
<1>2. P \subseteq Queries
    BY DEF Queries
<1>3. F \in Seq(Queries)
  <2>1. F \in Seq(P)
    BY <1>1
  <2> HIDE DEF P
  <2>2. DOMAIN F = 1..Len(F) /\ Len(F) \in Nat /\ F = [i \in 1..Len(F) |-> F[i]] /\ \A i \in 1..Len(F) : F[i] \in P
    BY <2>1
  <2>3. QED
    BY <1>2, <2>2
<1>4. \A i \in DOMAIN F : F[i][1] \in ToSet(kinds)
  <2>1. SUFFICES ASSUME NEW i \in DOMAIN F PROVE F[i][1] \in ToSet(kinds)
    OBVIOUS
  <2>2. PICK a \in DOMAIN kinds, b \in DOMAIN names : F[i] = <<kinds[a], names[b]>>
    BY <1>1
  <2>3. F[i][1] = kinds[a]
    BY <2>2
  <2>4. QED
    BY <2>3 DEF ToSet
<1>5. ASSUME NEW k \in ToSet(kinds), NEW b \in DOMAIN names
      PROVE  \E i \in DOMAIN F : F[i] = <<k, names[b]>>
  <2>1. PICK a \in DOMAIN kinds : kinds[a] = k
    BY DEF ToSet
  <2>2. QED
    BY <1>1, <2>1
<1>6. QED
    BY <1>3, <1>4, <1>5 DEF F

LEMMA SqlitePartsAre ==
    /\ SqliteTableParts \in Seq(QueryKinds) /\ SqliteTableParts # <<>>
    /\ ToSet(SqliteTableParts) = {"column", "index", "fk"}
<1>1. SqliteTableParts \in Seq(QueryKinds)
    BY DEF SqliteTableParts, QueryKinds, ObjectKinds
<1>2. SqliteTableParts # <<>> /\ ToSet(SqliteTableParts) = {"column", "index", "fk"}
    BY DEF SqliteTableParts, ToSet
<1>3. QED
    BY <1>1, <1>2

LEMMA MongoPartsAre ==
    /\ MongoCollectionParts \in Seq(QueryKinds) /\ MongoCollectionParts # <<>>
    /\ ToSet(MongoCollectionParts) = {"stats", "field", "index", "validator"}
<1>1. MongoCollectionParts \in Seq(QueryKinds)
    BY DEF MongoCollectionParts, QueryKinds, ObjectKinds
<1>2. MongoCollectionParts # <<>> /\ ToSet(MongoCollectionParts) = {"stats", "field", "index", "validator"}
    BY DEF MongoCollectionParts, ToSet
<1>3. QED
    BY <1>1, <1>2

(* A table's or collection's query is followed by those of its parts.      *)
LEMMA FollowLists ==
    ASSUME server \in Servers, catalog \subseteq server.objects, NEW q, NEW R \in Answers(q)
    PROVE  /\ Follow(q, R) \in Seq(Queries)
           /\ \A i \in DOMAIN Follow(q, R) : Follow(q, R)[i][1] \notin {"scan", "key"}
           /\ ~(Engine \in {"sqlite", "mongodb"} /\ q[1] = Owner) => Follow(q, R) = <<>>
           /\ Engine \in {"sqlite", "mongodb"} /\ q[1] = Owner =>
                 \A k \in AskedLater : \A r \in R : \E i \in DOMAIN Follow(q, R) :
                     Follow(q, R)[i] = <<k, r.name>>
<1> PICK F : F = Follow(q, R)
    OBVIOUS
<1> DEFINE S == {r.name : r \in R}
<1>1. PICK names : names = SetToSeq(S)
    OBVIOUS
<1>2. /\ Engine = "sqlite" /\ q[1] = "table" => F = EachOf(SqliteTableParts, names)
      /\ Engine = "mongodb" /\ q[1] = "collection" => F = EachOf(MongoCollectionParts, names)
      /\ ~(Engine = "sqlite" /\ q[1] = "table") /\ ~(Engine = "mongodb" /\ q[1] = "collection") => F = <<>>
    BY <1>1, FollowIs
<1>3. /\ Engine = "sqlite" => Owner = "table" /\ AskedLater = {"column", "index", "fk"}
      /\ Engine = "mongodb" => Owner = "collection" /\ AskedLater = {"stats", "field", "index", "validator"}
    BY AskedLaterIs DEF Owner
<1>4. ASSUME q[1] # "field" PROVE names \in Seq(Names) /\ \A r \in R : \E b \in DOMAIN names : names[b] = r.name
  <2>1. S \subseteq Names
    <3>1. ASSUME NEW r \in R PROVE r.name \in Names
      <4>1. \A o \in catalog : IsObject(o) /\ o.name \in Names
        BY ObjectsOf
      <4>2. PICK o \in catalog : Tells(r, o) \/ FieldOf(r, o)
        BY RowsAreKnown DEF RowsKnown
      <4>3. r.kind # "field"
        BY <1>4, RowsAreKnown
      <4>4. QED
        BY <4>1, <4>2, <4>3 DEF Tells, Same, Misfiled, FieldOf
    <3>2. QED
      BY <3>1
  <2>2. IsFiniteSet(S)
    BY <2>1, ObjectsOf, FS_Subset
  <2> HIDE DEF S
  <2>3. /\ names \in Seq(S) /\ DOMAIN names = 1..Len(names) /\ Len(names) \in Nat
        /\ \A x \in S : \E i \in DOMAIN names : names[i] = x
        /\ \A i \in DOMAIN names : names[i] \in S
    BY <1>1, <2>2, SetToSeqLists
  <2>4. names \in Seq(Names)
    <3>1. names = [i \in 1..Len(names) |-> names[i]]
      BY <2>3
    <3>2. QED
      BY <2>1, <2>3, <3>1
  <2>5. QED
    BY <2>3, <2>4 DEF S
<1> HIDE DEF S
<1>5. CASE Engine = "sqlite" /\ q[1] = "table"
  <2>1. F = EachOf(SqliteTableParts, names) /\ q[1] # "field"
    BY <1>2, <1>5
  <2>2. /\ F \in Seq(Queries)
        /\ \A i \in DOMAIN F : F[i][1] \in {"column", "index", "fk"}
        /\ \A k \in {"column", "index", "fk"} : \A b \in DOMAIN names : \E i \in DOMAIN F : F[i] = <<k, names[b]>>
    <3>1. PICK kinds : kinds = SqliteTableParts
      OBVIOUS
    <3>2. kinds \in Seq(QueryKinds) /\ kinds # <<>> /\ ToSet(kinds) = {"column", "index", "fk"}
      BY <3>1, SqlitePartsAre
    <3>3. F = EachOf(kinds, names) /\ names \in Seq(Names)
      BY <1>4, <2>1, <3>1
    <3>4. kinds \in Seq(QueryKinds) /\ kinds # <<>> /\ names \in Seq(Names)
      BY <3>2, <3>3
    <3>5. /\ EachOf(kinds, names) \in Seq(Queries)
          /\ \A i \in DOMAIN EachOf(kinds, names) : EachOf(kinds, names)[i][1] \in ToSet(kinds)
          /\ \A k \in ToSet(kinds) : \A b \in DOMAIN names : \E i \in DOMAIN EachOf(kinds, names) :
                EachOf(kinds, names)[i] = <<k, names[b]>>
      BY <3>4, EachOfNames
    <3>6. QED
      BY <3>2, <3>3, <3>5
  <2>3. \A k \in AskedLater : \A r \in R : \E i \in DOMAIN F : F[i] = <<k, r.name>>
    <3>1. SUFFICES ASSUME NEW k \in AskedLater, NEW r \in R PROVE \E i \in DOMAIN F : F[i] = <<k, r.name>>
      OBVIOUS
    <3>2. PICK b \in DOMAIN names : names[b] = r.name
      BY <1>4, <2>1
    <3>3. k \in {"column", "index", "fk"}
      BY <1>3, <1>5
    <3>4. QED
      BY <2>2, <3>2, <3>3
  <2>4. QED
    BY <1>3, <1>5, <2>2, <2>3
<1>6. CASE Engine = "mongodb" /\ q[1] = "collection"
  <2>1. F = EachOf(MongoCollectionParts, names) /\ q[1] # "field"
    BY <1>2, <1>6
  <2>2. /\ F \in Seq(Queries)
        /\ \A i \in DOMAIN F : F[i][1] \in {"stats", "field", "index", "validator"}
        /\ \A k \in {"stats", "field", "index", "validator"} : \A b \in DOMAIN names :
              \E i \in DOMAIN F : F[i] = <<k, names[b]>>
    <3>1. PICK kinds : kinds = MongoCollectionParts
      OBVIOUS
    <3>2. kinds \in Seq(QueryKinds) /\ kinds # <<>> /\ ToSet(kinds) = {"stats", "field", "index", "validator"}
      BY <3>1, MongoPartsAre
    <3>3. F = EachOf(kinds, names) /\ names \in Seq(Names)
      BY <1>4, <2>1, <3>1
    <3>4. kinds \in Seq(QueryKinds) /\ kinds # <<>> /\ names \in Seq(Names)
      BY <3>2, <3>3
    <3>5. /\ EachOf(kinds, names) \in Seq(Queries)
          /\ \A i \in DOMAIN EachOf(kinds, names) : EachOf(kinds, names)[i][1] \in ToSet(kinds)
          /\ \A k \in ToSet(kinds) : \A b \in DOMAIN names : \E i \in DOMAIN EachOf(kinds, names) :
                EachOf(kinds, names)[i] = <<k, names[b]>>
      BY <3>4, EachOfNames
    <3>6. QED
      BY <3>2, <3>3, <3>5
  <2>3. \A k \in AskedLater : \A r \in R : \E i \in DOMAIN F : F[i] = <<k, r.name>>
    <3>1. SUFFICES ASSUME NEW k \in AskedLater, NEW r \in R PROVE \E i \in DOMAIN F : F[i] = <<k, r.name>>
      OBVIOUS
    <3>2. PICK b \in DOMAIN names : names[b] = r.name
      BY <1>4, <2>1
    <3>3. k \in {"stats", "field", "index", "validator"}
      BY <1>3, <1>6
    <3>4. QED
      BY <2>2, <3>2, <3>3
  <2>4. QED
    BY <1>3, <1>6, <2>2, <2>3
<1>7. CASE ~(Engine = "sqlite" /\ q[1] = "table") /\ ~(Engine = "mongodb" /\ q[1] = "collection")
  <2>1. F = <<>>
    BY <1>2, <1>7
  <2>2. QED
    BY <1>3, <1>7, <2>1
<1>8. QED
    BY <1>5, <1>6, <1>7
-----------------------------------------------------------------------------
(* A chain whose first query is replaced by others.                        *)
LEMMA RestIs ==
    ASSUME NEW Q, NEW s \in Seq(Q), s # <<>>, NEW pre \in Seq(Q), NEW t, t = pre \o Tail(s)
    PROVE  /\ t \in Seq(Q) /\ Len(t) = Len(pre) + Len(s) - 1
           /\ \A i \in DOMAIN t : \/ i \in DOMAIN pre /\ t[i] = pre[i]
                                  \/ /\ i - Len(pre) + 1 \in DOMAIN s /\ i - Len(pre) + 1 > 1
                                     /\ t[i] = s[i - Len(pre) + 1]
           /\ \A i \in DOMAIN pre : i \in DOMAIN t /\ t[i] = pre[i]
           /\ \A i \in DOMAIN s : i > 1 =>
                 i + Len(pre) - 1 \in DOMAIN t /\ t[i + Len(pre) - 1] = s[i]
<1> DEFINE m == Len(pre)
           n == Len(s)
           u == Tail(s)
<1>1. /\ m \in Nat /\ n \in Nat \ {0} /\ DOMAIN pre = 1..m /\ DOMAIN s = 1..n
    OBVIOUS
<1>2. u \in Seq(Q) /\ Len(u) = n - 1 /\ \A i \in 1..(n - 1) : u[i] = s[i + 1]
    BY HeadTailProperties
<1> HIDE DEF u, m, n
<1>3. /\ t \in Seq(Q) /\ Len(t) = m + (n - 1)
      /\ \A i \in 1..(m + (n - 1)) : t[i] = IF i <= m THEN pre[i] ELSE u[i - m]
    BY <1>2, ConcatProperties DEF u, m
<1>4. DOMAIN t = 1..(m + n - 1) /\ Len(t) = m + n - 1
    BY <1>1, <1>3
<1>5. ASSUME NEW i \in 1..(m + n - 1)
      PROVE  \/ i \in 1..m /\ t[i] = pre[i]
             \/ i - m + 1 \in 1..n /\ i - m + 1 > 1 /\ t[i] = s[i - m + 1]
  <2>1. CASE i <= m
    BY <1>1, <1>3, <2>1
  <2>2. CASE i > m
    <3>1. i - m \in 1..(n - 1) /\ ~(i <= m) /\ i \in 1..(m + (n - 1))
      BY <1>1, <2>2
    <3>2. t[i] = u[i - m]
      BY <1>3, <3>1
    <3>3. u[i - m] = s[(i - m) + 1]
      BY <1>2, <3>1
    <3>4. QED
      BY <1>1, <3>1, <3>2, <3>3
  <2>3. QED
    BY <1>1, <2>1, <2>2
<1>6. \A i \in 1..m : i \in 1..(m + n - 1) /\ t[i] = pre[i]
    BY <1>1, <1>3
<1>7. ASSUME NEW i \in 1..n, i > 1
      PROVE  i + m - 1 \in 1..(m + n - 1) /\ t[i + m - 1] = s[i]
  <2>1. i - 1 \in 1..(n - 1) /\ i + m - 1 > m /\ (i + m - 1) - m = i - 1 /\ i + m - 1 \in 1..(m + (n - 1))
    BY <1>1, <1>7
  <2>2. t[i + m - 1] = u[i - 1]
    BY <1>1, <1>3, <2>1
  <2>3. u[i - 1] = s[(i - 1) + 1] /\ (i - 1) + 1 = i
    BY <1>1, <1>2, <2>1
  <2>4. QED
    BY <1>1, <2>1, <2>2, <2>3
<1>8. QED
    BY <1>1, <1>3, <1>4, <1>5, <1>6, <1>7 DEF m, n, u

(* What is awaited stays so, but for what the first query of the chain     *)
(* that goes on was to read.                                               *)
LEMMA StillAwaited ==
    ASSUME ChainsSound, NEW s \in todo, NEW pre \in Seq(Queries), NEW rest, rest = pre \o Tail(s),
           Continue(s, rest), server' = server, caps' = caps
    PROVE  /\ \A o : Awaited(o) => Serves(Head(s), o) \/ Awaited(o)'
           /\ \A o : \A i \in DOMAIN pre : Serves(pre[i], o) => Awaited(o)'
<1>1. Engine' = Engine /\ AskedLater' = AskedLater
    BY WorkStays
<1>2. \A q, o : Serves(q, o)' = Serves(q, o)
    BY <1>1 DEF Serves
<1>3. s \in Seq(Queries) /\ s # <<>> /\ todo' = (todo \ {s}) \cup ({rest} \ {<<>>})
    BY DEF ChainsSound, Continue
<1> DEFINE m == Len(pre)
<1>4. /\ \A i \in DOMAIN pre : i \in DOMAIN rest /\ rest[i] = pre[i]
      /\ \A i \in DOMAIN s : i > 1 => i + m - 1 \in DOMAIN rest /\ rest[i + m - 1] = s[i]
      /\ rest \in Seq(Queries)
  <2>1. PICK Q : Q = Queries
    OBVIOUS
  <2>2. s \in Seq(Q) /\ pre \in Seq(Q)
    BY <1>3, <2>1
  <2>3. QED
    BY <1>3, <2>1, <2>2, RestIs
<1> HIDE DEF m
<1>5. ASSUME NEW i \in DOMAIN rest PROVE rest \in todo'
  <2>1. rest # <<>>
    BY <1>4, <1>5
  <2>2. QED
    BY <1>3, <2>1
<1>6. ASSUME NEW o, Awaited(o), ~Serves(Head(s), o) PROVE Awaited(o)'
  <2>1. PICK x \in todo : \E i \in DOMAIN x : Serves(x[i], o)
    BY <1>6 DEF Awaited
  <2>2. PICK i \in DOMAIN x : Serves(x[i], o)
    BY <2>1
  <2>3. CASE x # s
    <3>1. x \in todo' /\ Serves(x[i], o)'
      BY <1>2, <1>3, <2>2, <2>3
    <3>2. QED
      BY <3>1 DEF Awaited
  <2>4. CASE x = s
    <3>1. i > 1
      <4>1. i \in 1..Len(s) /\ Head(s) = s[1] /\ Len(s) \in Nat
        BY <1>3, <2>4
      <4>2. i # 1
        BY <1>6, <2>2, <2>4, <4>1
      <4>3. QED
        BY <4>1, <4>2
    <3>2. PICK j \in DOMAIN rest : rest[j] = s[i]
      BY <1>4, <2>4, <3>1
    <3>3. Serves(rest[j], o)'
      BY <1>2, <2>2, <2>4, <3>2
    <3>4. QED
      BY <1>5, <3>3 DEF Awaited
  <2>5. QED
    BY <2>3, <2>4
<1>7. ASSUME NEW o, NEW i \in DOMAIN pre, Serves(pre[i], o) PROVE Awaited(o)'
  <2>1. i \in DOMAIN rest /\ Serves(rest[i], o)'
    BY <1>2, <1>4, <1>7
  <2>2. QED
    BY <1>5, <2>1 DEF Awaited
<1>8. QED
    BY <1>6, <1>7

(* A step of one chain keeps all chains sound, and tables before their     *)
(* parts.                                                                  *)
LEMMA ChainsKept ==
    ASSUME ChainsSound, NEW s \in todo, NEW pre \in Seq(Queries), NEW rest, rest = pre \o Tail(s),
           Continue(s, rest), server' = server, seen' = seen,
           \A i \in DOMAIN pre : /\ pre[i][1] \in {"scan", "key"} => Engine = "redis"
                                 /\ pre[i][1] = "scan" =>
                                       /\ i = Len(pre) /\ Len(s) = 1
                                       /\ pre[i][2] \subseteq server.objects
                                 /\ pre[i][1] = "key" => pre[i][2] \in seen
    PROVE  ChainsSound'
<1>1. Engine' = Engine /\ Queries' = Queries
    BY DEF Engine, Queries, Names
<1>2. /\ s \in Seq(Queries) /\ s # <<>> /\ todo' = (todo \ {s}) \cup ({rest} \ {<<>>})
      /\ DOMAIN s = 1..Len(s) /\ Len(s) \in Nat
      /\ DOMAIN pre = 1..Len(pre) /\ Len(pre) \in Nat
    BY DEF ChainsSound, Continue
<1> DEFINE m == Len(pre)
           Fine(t) == \A i \in DOMAIN t :
                          /\ t[i][1] \in {"scan", "key"} => Engine = "redis"
                          /\ t[i][1] = "scan" => i = Len(t) /\ t[i][2] \subseteq server.objects
                          /\ t[i][1] = "key" => t[i][2] \in seen
<1>3. /\ rest \in Seq(Queries) /\ Len(rest) = m + Len(s) - 1
      /\ \A i \in DOMAIN rest : \/ i \in DOMAIN pre /\ rest[i] = pre[i]
                                \/ i - m + 1 \in DOMAIN s /\ i - m + 1 > 1 /\ rest[i] = s[i - m + 1]
      /\ DOMAIN rest = 1..Len(rest)
  <2>1. PICK Q : Q = Queries
    OBVIOUS
  <2>2. s \in Seq(Q) /\ pre \in Seq(Q)
    BY <1>2, <2>1
  <2>3. QED
    BY <1>2, <2>1, <2>2, RestIs
<1>4. m \in Nat
    BY <1>2
<1>5. \A t \in todo : Fine(t)
    BY DEF ChainsSound
<1> HIDE DEF m
<1>6. Fine(rest)
  <2>1. SUFFICES ASSUME NEW i \in DOMAIN rest
                 PROVE  /\ rest[i][1] \in {"scan", "key"} => Engine = "redis"
                        /\ rest[i][1] = "scan" => i = Len(rest) /\ rest[i][2] \subseteq server.objects
                        /\ rest[i][1] = "key" => rest[i][2] \in seen
    OBVIOUS
  <2>2. CASE i \in DOMAIN pre /\ rest[i] = pre[i]
    <3>1. /\ rest[i][1] \in {"scan", "key"} => Engine = "redis"
          /\ rest[i][1] = "key" => rest[i][2] \in seen
      BY <2>2
    <3>2. rest[i][1] = "scan" => i = m /\ Len(s) = 1 /\ rest[i][2] \subseteq server.objects
      BY <2>2 DEF m
    <3>3. rest[i][1] = "scan" => i = Len(rest)
      <4>1. ASSUME i = m, Len(s) = 1 PROVE i = Len(rest)
        <5>1. Len(rest) = m + 1 - 1
          BY <1>3, <4>1
        <5>2. QED
          BY <1>4, <4>1, <5>1
      <4>2. QED
        BY <3>2, <4>1
    <3>4. QED
      BY <3>1, <3>2, <3>3
  <2>3. CASE i - m + 1 \in DOMAIN s /\ i - m + 1 > 1 /\ rest[i] = s[i - m + 1]
    <3>1. /\ s[i - m + 1][1] \in {"scan", "key"} => Engine = "redis"
          /\ s[i - m + 1][1] = "scan" => i - m + 1 = Len(s) /\ s[i - m + 1][2] \subseteq server.objects
          /\ s[i - m + 1][1] = "key" => s[i - m + 1][2] \in seen
      BY <1>5, <2>3
    <3>2. i - m + 1 = Len(s) => i = Len(rest)
      BY <1>2, <1>3, <1>4, <2>1
    <3>3. QED
      BY <2>3, <3>1, <3>2
  <2>4. QED
    BY <1>3, <2>2, <2>3
<1>7. \A t \in todo' : t \in Seq(Queries) \ {<<>>} /\ Fine(t)
    BY <1>2, <1>3, <1>5, <1>6 DEF ChainsSound
<1>8. QED
    BY <1>1, <1>7 DEF ChainsSound

LEMMA OrderKept ==
    ASSUME ChainsSound, TablesFirst, NEW s \in todo, NEW pre \in Seq(Queries), NEW rest, rest = pre \o Tail(s),
           Continue(s, rest), server' = server, Nested => pre = <<>>
    PROVE  TablesFirst'
<1>1. Engine' = Engine
    BY DEF Engine
<1>2. SUFFICES ASSUME Nested PROVE \A x, y \in todo' : InOrder(x, y)
    BY <1>1 DEF TablesFirst, Nested, InOrder
<1>3. \A x, y \in todo : InOrder(x, y)
    BY <1>2 DEF TablesFirst, InOrder
<1>4. /\ s \in Seq(Queries) /\ s # <<>> /\ todo' = (todo \ {s}) \cup ({rest} \ {<<>>})
      /\ DOMAIN s = 1..Len(s) /\ Len(s) \in Nat
    BY DEF ChainsSound, Continue
<1>5. \A i \in DOMAIN rest : i \in Nat /\ i + 1 \in DOMAIN s /\ rest[i] = s[i + 1]
  <2>1. PICK Q : Q = Queries
    OBVIOUS
  <2>2. s \in Seq(Q) /\ <<>> \in Seq(Q) /\ rest = <<>> \o Tail(s) /\ Len(<<>>) = 0
    BY <1>2, <1>4, <2>1
  <2>3. \A i \in DOMAIN rest : \/ i \in DOMAIN <<>>
                               \/ i - 0 + 1 \in DOMAIN s /\ rest[i] = s[i - 0 + 1]
    BY <1>4, <2>2, RestIs
  <2>4. rest \in Seq(Q)
    BY <1>4, <2>2, RestIs
  <2>5. \A i \in DOMAIN rest : i \in Nat /\ i - 0 + 1 = i + 1
    BY <2>4
  <2>6. QED
    BY <2>3, <2>5
<1>6. InOrder(rest, rest)
  <2>1. SUFFICES ASSUME NEW i \in DOMAIN rest, NEW j \in DOMAIN rest,
                        rest[i][1] \in PartKinds, rest[j][1] = HolderKind(rest[i][1])
                 PROVE  j < i
    BY DEF InOrder
  <2>2. j + 1 < i + 1
    BY <1>3, <1>5, <2>1 DEF InOrder
  <2>3. QED
    BY <1>5, <2>2
<1>7. ASSUME NEW x \in todo, x # s PROVE InOrder(x, rest) /\ InOrder(rest, x)
  <2>1. ASSUME NEW i \in DOMAIN x, NEW j \in DOMAIN rest, x[i][1] \in PartKinds, rest[j][1] = HolderKind(x[i][1])
        PROVE  FALSE
    BY <1>3, <1>5, <1>7, <2>1 DEF InOrder
  <2>2. ASSUME NEW i \in DOMAIN rest, NEW j \in DOMAIN x, rest[i][1] \in PartKinds, x[j][1] = HolderKind(rest[i][1])
        PROVE  FALSE
    BY <1>3, <1>5, <1>7, <2>2 DEF InOrder
  <2>3. QED
    BY <2>1, <2>2 DEF InOrder
<1>8. QED
    BY <1>3, <1>4, <1>6, <1>7
-----------------------------------------------------------------------------
(* A step of a fetch.                                                      *)
LEMMA Fetching ==
    ASSUME DriversInv, NEW s \in todo
    PROVE  /\ status = "fetching" /\ answer = {} /\ catalog \subseteq seen
           /\ s \in Seq(Queries) /\ s # <<>> /\ Head(s) = s[1] /\ 1 \in DOMAIN s /\ Len(s) \in Nat
           /\ Head(s) \in Queries
           /\ \A r \in got : Known(r)
           /\ \A o \in Meant(stable) : Answered(o, got) \/ Excused(o) \/ Awaited(o)
           /\ server \in Servers /\ catalog \subseteq server.objects /\ stable \subseteq catalog
           /\ seen \subseteq server.objects /\ Engine \in Engines
<1>1. TypeOK /\ status = "fetching"
    BY DEF DriversInv, TypeOK
<1>2. s \in Seq(Queries) /\ s # <<>>
    BY DEF DriversInv, ChainsSound
<1>3. Head(s) = s[1] /\ 1 \in DOMAIN s /\ Len(s) \in Nat /\ Head(s) \in Queries
    BY <1>2
<1>4. Engine \in Engines
    BY <1>1, ObjectsOf DEF TypeOK
<1>5. /\ answer = {} /\ catalog \subseteq seen /\ \A r \in got : Known(r)
      /\ server \in Servers /\ catalog \subseteq server.objects /\ stable \subseteq catalog
      /\ seen \subseteq server.objects
    BY <1>1 DEF DriversInv, TypeOK
<1>6. \A o \in Meant(stable) : Answered(o, got) \/ Excused(o) \/ Awaited(o)
    BY <1>1 DEF DriversInv, Complete
<1>7. QED
    BY <1>1, <1>2, <1>3, <1>4, <1>5, <1>6

(* Nothing that is meant is lost in a step if what its query served is     *)
(* not.                                                                    *)
LEMMA AnsweredGrows ==
    ASSUME NEW o, NEW S, NEW T, S \subseteq T, Answered(o, S)
    PROVE  Answered(o, T)
    BY DEF Answered

LEMMA CompleteKept ==
    ASSUME DriversInv, NEW s \in todo, NEW pre \in Seq(Queries), NEW rest, rest = pre \o Tail(s),
           Continue(s, rest), UNCHANGED <<server, caps, stable, status>>, got \subseteq got',
           skipped \subseteq skipped', taken = SampleLimit => taken' = SampleLimit,
           \A o \in Meant(stable) : Serves(Head(s), o) => Answered(o, got') \/ Excused(o)' \/ Awaited(o)'
    PROVE  Complete'
<1>1. status = "fetching" /\ \A o \in Meant(stable) : Answered(o, got) \/ Excused(o) \/ Awaited(o)
    BY Fetching
<1>2. PICK S : S = stable
    OBVIOUS
<1>3. Meant(S)' = Meant(S)
    BY MeantStays
<1>4. Meant(stable)' = Meant(stable)
  <2>1. stable' = S
    BY <1>2
  <2>2. Meant(stable)' = Meant(S)'
    BY <2>1
  <2>3. QED
    BY <1>2, <1>3, <2>2
<1>5. Engine' = Engine
    BY DEF Engine
<1>6. \A o : Answered(o, got)' <=> Answered(o, got')
    BY <1>5 DEF Answered, WithColumns
<1>7. \A o : Excused(o) => Excused(o)'
    BY <1>5 DEF Excused
<1>8. \A o : Answered(o, got) => Answered(o, got)'
    BY <1>6, AnsweredGrows
<1>9. \A o : Awaited(o) => Serves(Head(s), o) \/ Awaited(o)'
    BY StillAwaited DEF DriversInv
<1>10. \A o \in Meant(stable)' : Answered(o, got)' \/ Excused(o)' \/ Awaited(o)'
    BY <1>1, <1>4, <1>6, <1>7, <1>8, <1>9
<1>11. status' # "done"
    BY <1>1
<1>12. QED
    BY <1>10, <1>11 DEF Complete

(* An object's row answers for it; what is meant is still in the           *)
(* catalogue.                                                              *)
LEMMA RowAnswers ==
    ASSUME NEW o, IsObject(o), NEW rows, Row(o, o.on) \in rows
    PROVE  Answered(o, rows)
<1>1. PICK r : r = Row(o, o.on)
    OBVIOUS
<1>2. QED
    BY <1>1, RowIs DEF Answered, Same

LEMMA MeantIsThere ==
    ASSUME DriversInv, NEW s \in todo, NEW o \in Listed(stable)
    PROVE  /\ o \in catalog /\ IsObject(o) /\ Lists(o, catalog) /\ o.kind \in Asked \cup AskedLater
           /\ o.kind \in ObjectKinds /\ (Child(o) <=> o.kind \in PartKinds)
<1>1. o \in stable /\ Lists(o, stable) /\ o.kind \in Asked \cup AskedLater
    BY DEF Listed
<1>2. stable \subseteq catalog /\ catalog \subseteq server.objects /\ server \in Servers /\ Engine \in Engines
    BY Fetching
<1>3. PICK S, T : S = stable /\ T = catalog
    OBVIOUS
<1>4. Lists(o, catalog)
    BY <1>1, <1>2, <1>3, ListsMonotone
<1>5. o \in catalog /\ IsObject(o)
    BY <1>1, <1>2, ObjectsOf
<1>6. QED
    BY <1>1, <1>4, <1>5 DEF IsObject

(* On the engines whose tables come first in the chain of their parts, the *)
(* rows of the tables are there when those of the parts come.              *)
LEMMA HoldersRead ==
    ASSUME DriversInv, Nested, NEW s \in todo, NEW o \in Meant(stable), o.kind = Head(s)[1]
    PROVE  Keeps(o, got)
<1>1. PICK L : L = Listed(stable)
    OBVIOUS
<1>2. o \in L /\ Keeps(o, L) /\ Engine \in Engines
    BY <1>1, Fetching DEF Meant
<1>3. CASE ~Child(o)
    BY <1>3, FilesIs DEF Keeps
<1>4. CASE Child(o)
  <2>1. o.kind \in PartKinds /\ Holder(o) = HolderKind(o.kind)
    BY <1>1, <1>2, <1>4, MeantIsThere DEF Holder, HolderKind
  <2>2. ASSUME NEW t \in L, t.kind = Holder(o)
        PROVE  \E r \in got : r.kind = t.kind /\ r.schema = t.schema /\ r.name = t.name
    <3>1. t.kind \notin PartKinds
      BY <2>2 DEF Holder, PartKinds
    <3>2. ~Child(t)
      BY <1>1, <3>1, MeantIsThere
    <3>3. t \in Meant(stable)
      BY <1>1, <3>2, FilesIs DEF Meant, Keeps
    <3>4. Answered(t, got) \/ Excused(t) \/ Awaited(t)
      BY <3>3, Fetching
    <3>5. ~Excused(t)
      BY DEF Excused, Nested
    <3>6. ~Awaited(t)
      <4>1. SUFFICES ASSUME NEW x \in todo, NEW j \in DOMAIN x, Serves(x[j], t) PROVE FALSE
        BY DEF Awaited
      <4>2. x[j] = <<t.kind, Null>>
        BY <3>1, <4>1 DEF Serves, Nested
      <4>3. s[1][1] \in PartKinds /\ x[j][1] = HolderKind(s[1][1]) /\ 1 \in DOMAIN s
        BY <2>1, <2>2, <4>2, Fetching
      <4>4. s = x /\ j < 1
        BY <4>3 DEF DriversInv, TablesFirst
      <4>5. s \in Seq(Queries)
        BY Fetching
      <4>6. QED
        BY <4>4, <4>5
    <3>7. QED
      BY <3>4, <3>5, <3>6 DEF Answered, Same
  <2>3. QED
    BY <1>2, <2>2, KeepsFound
<1>5. QED
    BY <1>3, <1>4

(* The query that serves an object reads it, or is followed by one that    *)
(* serves it.                                                              *)
LEMMA QueryReads ==
    ASSUME DriversInv, NEW s \in todo, NEW h, h = Head(s), h[1] \notin {"scan", "key"},
           NEW o \in Meant(stable), Serves(h, o), NEW R \in Answers(h), NEW F, F = Follow(h, R),
           NEW rows, rows = got \cup R
    PROVE  Answered(o, rows) \/ \E i \in DOMAIN F : Serves(F[i], o)
<1>1. /\ o \in Listed(stable) /\ Engine \in Engines /\ server \in Servers /\ catalog \subseteq server.objects
      /\ Child(o) /\ o.kind \in AskedLater => \E p \in Parent(o, Listed(stable)) : p.kind \in {"table", "collection"}
    BY Fetching DEF Meant
<1>2. /\ o \in catalog /\ IsObject(o) /\ Lists(o, catalog) /\ o.kind \in Asked \cup AskedLater
      /\ o.kind \in ObjectKinds /\ (Child(o) <=> o.kind \in PartKinds)
    BY <1>1, MeantIsThere
<1>3. ASSUME h[1] = o.kind, h[2] # Null => o.on[2] = h[2], Keeps(o, got) PROVE Answered(o, rows)
  <2>1. Row(o, o.on) \in Rows(h)
    BY <1>2, <1>3 DEF Rows, Keeps
  <2>2. R = Rows(h)
    BY <1>2, <1>3, AnswersAre DEF ObjectKinds
  <2>3. QED
    BY <1>2, <2>1, <2>2, RowAnswers
<1>4. CASE Engine # "redis" /\ h = <<o.kind, Null>>
  <2>1. CASE Nested
    BY <1>3, <1>4, <2>1, HoldersRead
  <2>2. CASE ~Nested
    <3>1. Keeps(o, got)
      BY <1>1, <1>4, <2>2, FilesIs DEF Nested, Engines, Keeps
    <3>2. QED
      BY <1>3, <1>4, <3>1
  <2>3. QED
    BY <2>1, <2>2
<1>5. CASE o.kind \in PartKinds /\ o.kind \in AskedLater
  <2>1. Engine \in {"sqlite", "mongodb"}
    BY <1>1, <1>5, AskedLaterIs DEF Engines, Nested, PartKinds
  <2>2. \A x, y : Keeps(x, y)
    BY <2>1, FilesIs DEF Keeps
  <2>3. CASE h = <<o.kind, o.on[2]>>
    BY <1>3, <2>2, <2>3
  <2>4. CASE (Engine = "sqlite" /\ h = <<"table", Null>>) \/ (Engine = "mongodb" /\ h = <<"collection", Null>>)
    <3>1. PICK p \in Parent(o, Listed(stable)) : p.kind \in {"table", "collection"}
      BY <1>1, <1>2, <1>5
    <3>2. p \in Listed(stable) /\ p.name = o.on[2]
      BY <3>1 DEF Parent
    <3>3. p \in catalog /\ IsObject(p) /\ Lists(p, catalog) /\ p.kind \in Asked \cup AskedLater
      BY <3>2, MeantIsThere
    <3>4. p.kind = h[1] /\ h[1] = Owner /\ h[2] = Null
      BY <1>1, <2>1, <2>4, <3>1, <3>3, AskedIs, AskedLaterIs DEF Owner
    <3>5. Row(p, p.on) \in R
      <4>1. Row(p, p.on) \in Rows(h)
        BY <2>2, <3>3, <3>4 DEF Rows, Keeps
      <4>2. R = Rows(h)
        BY <3>3, <3>4, AnswersAre DEF ObjectKinds, IsObject
      <4>3. QED
        BY <4>1, <4>2
    <3>6. PICK r : r = Row(p, p.on)
      OBVIOUS
    <3>7. r.name = o.on[2]
      BY <3>2, <3>3, <3>6, RowIs
    <3>8. PICK i \in DOMAIN F : F[i] = <<o.kind, r.name>>
      <4>1. \A k \in AskedLater : \A x \in R : \E i \in DOMAIN F : F[i] = <<k, x.name>>
        <5>1. /\ server \in Servers /\ catalog \subseteq server.objects
              /\ Engine \in {"sqlite", "mongodb"} /\ h[1] = Owner
          BY <1>1, <2>1, <3>4
        <5>2. \A k \in AskedLater : \A x \in R : \E i \in DOMAIN Follow(h, R) :
                 Follow(h, R)[i] = <<k, x.name>>
          BY <5>1, FollowLists, SMTT(60)
        <5>3. QED
          BY <5>2
      <4>2. r \in R
        BY <3>5, <3>6
      <4>3. QED
        BY <1>5, <4>1, <4>2
    <3>9. Serves(F[i], o)
      BY <1>5, <3>7, <3>8 DEF Serves
    <3>10. QED
      BY <3>9
  <2>5. CASE Engine # "redis" /\ h = <<o.kind, Null>>
    BY <1>4, <2>5
  <2>6. QED
    BY <2>1, <2>3, <2>4, <2>5 DEF Serves
<1>6. QED
    BY <1>4, <1>5 DEF Serves
-----------------------------------------------------------------------------
(* What a step of a fetch must establish.                                  *)
LEMMA KnownStays ==
    ASSUME server' = server, seen \subseteq seen'
    PROVE  \A r : Known(r) => Known(r)'
<1>1. Engine' = Engine
    BY DEF Engine
<1>2. \A r, o : Tells(r, o)' <=> Tells(r, o)
    BY <1>1 DEF Tells, Misfiled, Same
<1>3. \A r, o : FieldOf(r, o)' <=> FieldOf(r, o)
    BY DEF FieldOf, Everywhere
<1>4. QED
    BY <1>2, <1>3 DEF Known

LEMMA StepKeepsInv ==
    ASSUME DriversInv, NEW s \in todo, UNCHANGED <<server, catalog, caps, answer, ddl, seen, stable>>,
           TypeOK', ChainsSound', TablesFirst', Complete', \A r \in got' : Known(r)
    PROVE  DriversInv'
<1>1. /\ status = "fetching" /\ answer' = {} /\ catalog \subseteq seen /\ stable \subseteq catalog
      /\ seen \subseteq server.objects
    BY Fetching
<1>2. \A r \in got' : Known(r)'
    BY KnownStays
<1>3. \A r \in (got \cup answer)' : Known(r)'
    BY <1>1, <1>2
<1>4. (stable \subseteq catalog)' /\ (catalog \subseteq seen)' /\ (seen \subseteq server.objects)'
    BY <1>1
<1>5. (caps = Capabilities(server))'
    BY <1>1 DEF DriversInv
<1>6. QED
    BY <1>3, <1>4, <1>5 DEF DriversInv

(* A query answers.                                                        *)
LEMMA QueryInv ==
    ASSUME DriversInv, NEW s \in todo, Query(s), UNCHANGED <<server, catalog, caps, answer, ddl, seen, stable>>
    PROVE  DriversInv'
<1> PICK h : h = Head(s)
    OBVIOUS
<1>1. PICK R \in Answers(h) : got' = got \cup R /\ Continue(s, Follow(h, R) \o Tail(s))
    BY DEF Query
<1>2. PICK pre, rest : pre = Follow(h, R) /\ rest = pre \o Tail(s)
    OBVIOUS
<1>3. /\ status = "fetching" /\ answer = {} /\ catalog \subseteq seen
      /\ server \in Servers /\ catalog \subseteq server.objects
      /\ \A r \in got : Known(r)
    BY Fetching
<1>4. /\ h[1] \notin {"scan", "key"} /\ got' = got \cup R /\ Continue(s, rest)
      /\ UNCHANGED <<status, taken, faults, skipped>>
    BY <1>1, <1>2 DEF Query
<1>5. /\ pre \in Seq(Queries) /\ \A i \in DOMAIN pre : pre[i][1] \notin {"scan", "key"}
      /\ Nested => pre = <<>>
    BY <1>1, <1>2, <1>3, FollowLists DEF Nested
<1>7. \A r \in R : Known(r)
    BY <1>1, <1>3, RowsAreKnown DEF RowsKnown, Known
<1>8. TypeOK'
    BY <1>3, <1>4 DEF DriversInv, TypeOK
<1>9. ChainsSound' /\ TablesFirst'
    BY <1>2, <1>4, <1>5, ChainsKept, OrderKept DEF DriversInv
<1>10. ASSUME NEW o \in Meant(stable), Serves(Head(s), o)
       PROVE  Answered(o, got') \/ Awaited(o)'
  <2>1. Answered(o, got \cup R) \/ \E i \in DOMAIN pre : Serves(pre[i], o)
    BY <1>1, <1>2, <1>4, <1>10, QueryReads
  <2>2. ASSUME NEW i \in DOMAIN pre, Serves(pre[i], o) PROVE Awaited(o)'
    BY <1>2, <1>4, <1>5, <2>2, StillAwaited DEF DriversInv
  <2>3. QED
    BY <1>4, <2>1, <2>2
<1>11. Complete'
    BY <1>2, <1>4, <1>5, <1>10, CompleteKept
<1>12. QED
    BY <1>3, <1>4, <1>7, <1>8, <1>9, <1>11, StepKeepsInv

(* A step that ends a chain, with everything that is still awaited         *)
(* excused.                                                                *)
LEMMA ChainEnds ==
    ASSUME DriversInv, NEW s \in todo, Continue(s, <<>>), server' = server, seen' = seen
    PROVE  ChainsSound' /\ TablesFirst'
<1>1. todo' \subseteq todo
    BY DEF Continue
<1>2. Engine' = Engine /\ Queries' = Queries
    BY DEF Engine, Queries, Names
<1>3. ChainsSound'
    BY <1>1, <1>2 DEF DriversInv, ChainsSound
<1>4. TablesFirst'
    BY <1>1, <1>2 DEF DriversInv, TablesFirst, Nested
<1>5. QED
    BY <1>3, <1>4

(* The sample is full.                                                     *)
LEMMA LimitInv ==
    ASSUME DriversInv, NEW s \in todo, Head(s)[1] \in {"scan", "key"}, taken >= SampleLimit, Continue(s, <<>>),
           UNCHANGED <<status, got, taken, faults, skipped>>,
           UNCHANGED <<server, catalog, caps, answer, ddl, seen, stable>>
    PROVE  DriversInv'
<1>1. Engine = "redis"
    BY Fetching DEF DriversInv, ChainsSound
<1>2. taken = SampleLimit
    BY DriversAssumption DEF DriversInv, TypeOK
<1>3. status = "fetching" /\ answer = {} /\ \A r \in got : Known(r)
    BY Fetching
<1>4. TypeOK'
    BY <1>3 DEF DriversInv, TypeOK
<1>5. Engine' = Engine
    BY DEF Engine
<1>6. Complete'
    BY <1>1, <1>2, <1>3, <1>5 DEF Complete, Excused
<1>7. ChainsSound' /\ TablesFirst'
    BY ChainEnds
<1>8. QED
    BY <1>3, <1>4, <1>6, <1>7, StepKeepsInv

(* SCAN's batch, and the scan that comes after it.                         *)
BatchChain(keys, next) == [i \in DOMAIN keys |-> <<"key", keys[i]>>] \o next

LEMMA BatchIs ==
    ASSUME IsFiniteSet(server.objects), NEW batch, batch \subseteq server.objects,
           NEW next \in Seq(Queries), Len(next) \in {0, 1},
           NEW pre, BatchChain(SetToSeq(batch), next) = pre
    PROVE  /\ pre \in Seq(Queries)
           /\ \A i \in DOMAIN pre : \/ \E o \in batch : pre[i] = <<"key", o>>
                                    \/ i = Len(pre) /\ Len(next) = 1 /\ pre[i] = next[1]
           /\ \A o \in batch : \E i \in DOMAIN pre : pre[i] = <<"key", o>>
           /\ Len(next) = 1 => \E i \in DOMAIN pre : pre[i] = next[1]
<1> PICK keys : keys = SetToSeq(batch)
    OBVIOUS
<1> DEFINE K == [i \in DOMAIN keys |-> <<"key", keys[i]>>]
           m == Len(keys)
           n == Len(next)
<1>1. IsFiniteSet(batch)
    BY FS_Subset
<1>2. /\ DOMAIN keys = 1..m /\ m \in Nat
      /\ \A x \in batch : \E i \in DOMAIN keys : keys[i] = x
      /\ \A i \in DOMAIN keys : keys[i] \in batch
    BY <1>1, SetToSeqLists
<1>3. \A o \in batch : <<"key", o>> \in Queries
    BY DEF Queries, QueryKinds, ObjectKinds
<1>4. K \in Seq(Queries) /\ Len(K) = m
    BY <1>2, <1>3
<1>5. pre = K \o next
    BY DEF BatchChain
<1>6. \A i \in 1..m : K[i] = <<"key", keys[i]>>
    BY <1>2
<1>7. n \in {0, 1}
    OBVIOUS
<1> HIDE DEF K, m, n
<1>8. PICK Q : Q = Queries
    OBVIOUS
<1>9. /\ pre \in Seq(Q) /\ Len(pre) = m + n
      /\ \A i \in 1..(m + n) : pre[i] = IF i <= m THEN K[i] ELSE next[i - m]
  <2>1. K \in Seq(Q) /\ next \in Seq(Q)
    BY <1>4, <1>8
  <2>2. /\ K \o next \in Seq(Q) /\ Len(K \o next) = Len(K) + Len(next)
        /\ \A i \in 1..(Len(K) + Len(next)) : (K \o next)[i] = IF i <= Len(K) THEN K[i] ELSE next[i - Len(K)]
    BY <2>1, ConcatProperties
  <2>3. Len(K) = m /\ Len(next) = n
    BY <1>4 DEF n
  <2>4. QED
    BY <1>5, <2>2, <2>3
<1>10. DOMAIN pre = 1..(m + n) /\ m \in Nat
    BY <1>2, <1>7, <1>9
<1>11. ASSUME NEW i \in DOMAIN pre
       PROVE  \/ \E o \in batch : pre[i] = <<"key", o>>
              \/ i = Len(pre) /\ n = 1 /\ pre[i] = next[1]
  <2> i \in 1..(m + n)
    BY <1>10
  <2>1. CASE i <= m
    <3>1. i \in 1..m
      BY <1>10, <2>1
    <3>2. pre[i] = K[i]
      BY <1>9, <2>1
    <3>3. QED
      BY <1>2, <1>6, <3>1, <3>2
  <2>2. CASE ~(i <= m)
    <3>1. n = 1 /\ i = m + 1
      BY <1>7, <1>10, <2>2
    <3>2. pre[i] = next[i - m]
      BY <1>9, <2>2
    <3>3. i - m = 1
      BY <1>10, <3>1
    <3>4. QED
      BY <1>9, <3>1, <3>2, <3>3
  <2>3. QED
    BY <2>1, <2>2
<1>12. ASSUME NEW o \in batch PROVE \E i \in DOMAIN pre : pre[i] = <<"key", o>>
  <2>1. PICK i \in 1..m : keys[i] = o
    BY <1>2
  <2>2. i \in 1..(m + n) /\ i <= m
    BY <1>7, <1>10
  <2>3. QED
    BY <1>6, <1>9, <1>10, <2>1, <2>2
<1>13. ASSUME n = 1 PROVE \E i \in DOMAIN pre : pre[i] = next[1]
  <2>1. m + 1 \in 1..(m + n) /\ ~(m + 1 <= m) /\ (m + 1) - m = 1
    BY <1>10, <1>13
  <2>2. QED
    BY <1>9, <1>10, <2>1
<1>14. pre \in Seq(Queries)
    BY <1>8, <1>9
<1>15. QED
    BY <1>11, <1>12, <1>13, <1>14 DEF n

(* The query at the head of a chain.                                       *)
LEMMA HeadSound ==
    ASSUME DriversInv, NEW s \in todo
    PROVE  /\ Head(s)[1] \in {"scan", "key"} => Engine = "redis"
           /\ Head(s)[1] = "scan" => Len(s) = 1 /\ Head(s)[2] \subseteq server.objects
           /\ Head(s)[1] = "key" => Head(s) = <<"key", Head(s)[2]>> /\ Head(s)[2] \in seen
<1>1. Head(s) = s[1] /\ 1 \in DOMAIN s /\ Len(s) \in Nat /\ Head(s) \in Queries
    BY Fetching
<1>2. Head(s) = <<Head(s)[1], Head(s)[2]>>
    BY <1>1 DEF Queries
<1>3. /\ s[1][1] \in {"scan", "key"} => Engine = "redis"
      /\ s[1][1] = "scan" => 1 = Len(s) /\ s[1][2] \subseteq server.objects
      /\ s[1][1] = "key" => s[1][2] \in seen
    BY <1>1 DEF DriversInv, ChainsSound
<1>4. QED
    BY <1>1, <1>2, <1>3

(* Redis has no children of tables.                                        *)
LEMMA RedisMeans ==
    ASSUME DriversInv, NEW s \in todo, Engine = "redis", NEW o \in Meant(stable), NEW q, Serves(q, o)
    PROVE  /\ o \in stable /\ o \in catalog /\ IsObject(o) /\ o.kind \notin {"index", "fk"}
           /\ q = <<"key", o>> \/ (q[1] = "scan" /\ o \notin q[2])
<1>1. o \in Listed(stable) /\ Keeps(o, Listed(stable))
    BY DEF Meant
<1>2. ~Child(o)
    BY <1>1, FilesIs DEF Keeps
<1>3. o \in catalog /\ IsObject(o) /\ o.kind \notin PartKinds
    BY <1>1, <1>2, MeantIsThere
<1>4. o \in stable
    BY <1>1 DEF Listed
<1>5. QED
    BY <1>3, <1>4 DEF Serves, PartKinds

(* SCAN answers.                                                           *)
LEMMA ScanInv ==
    ASSUME DriversInv, NEW s \in todo, Scan(s), UNCHANGED <<server, catalog, caps, answer, ddl, seen, stable>>
    PROVE  DriversInv'
<1>1. Head(s)[1] = "scan" /\ UNCHANGED <<status, got, taken, faults, skipped>>
    BY DEF Scan
<1>2. CASE taken >= SampleLimit
  <2>1. Continue(s, <<>>)
    BY <1>2 DEF Scan
  <2>2. QED
    BY <1>1, <1>2, <2>1, LimitInv
<1>3. CASE ~(taken >= SampleLimit)
  <2>1. PICK batch \in SUBSET catalog, last \in BOOLEAN :
           LET passed == Head(s)[2] \cup batch
               keys == SetToSeq(batch)
           IN  /\ IF last THEN stable \cap catalog \subseteq passed ELSE passed # Head(s)[2]
               /\ Continue(s, [i \in DOMAIN keys |-> <<"key", keys[i]>>]
                              \o (IF last THEN <<>> ELSE <<<<"scan", passed>>>>))
    BY <1>3 DEF Scan
  <2>2. PICK passed, keys : passed = Head(s)[2] \cup batch /\ keys = SetToSeq(batch)
    OBVIOUS
  <2>3. PICK next, pre : /\ next = IF last THEN <<>> ELSE <<<<"scan", passed>>>>
                         /\ pre = BatchChain(keys, next)
    OBVIOUS
  <2>4. (last => stable \cap catalog \subseteq passed) /\ Continue(s, pre)
    BY <2>1, <2>2, <2>3 DEF BatchChain
  <2>5. /\ Engine = "redis" /\ Len(s) = 1 /\ Head(s)[2] \subseteq server.objects
        /\ server \in Servers /\ catalog \subseteq server.objects /\ catalog \subseteq seen
        /\ status = "fetching" /\ answer = {} /\ \A r \in got : Known(r)
        /\ s \in Seq(Queries) /\ s # <<>>
    BY <1>1, HeadSound, Fetching
  <2>6. /\ pre \in Seq(Queries)
        /\ \A i \in DOMAIN pre : \/ \E o \in batch : pre[i] = <<"key", o>>
                                 \/ i = Len(pre) /\ pre[i] = <<"scan", passed>>
        /\ \A o \in batch : \E i \in DOMAIN pre : pre[i] = <<"key", o>>
        /\ ~last => \E i \in DOMAIN pre : pre[i] = <<"scan", passed>>
    <3>1. batch \subseteq server.objects /\ passed \subseteq server.objects /\ IsFiniteSet(server.objects)
      BY <2>2, <2>5, ObjectsOf
    <3>2. <<"scan", passed>> \in Queries
      BY <3>1 DEF Queries, QueryKinds
    <3>3. /\ next \in Seq(Queries) /\ Len(next) = IF last THEN 0 ELSE 1
          /\ ~last => next[1] = <<"scan", passed>>
      BY <2>3, <3>2
    <3>4. BatchChain(SetToSeq(batch), next) = pre
      BY <2>2, <2>3
    <3>5. Len(next) \in {0, 1} /\ (Len(next) = 1 <=> ~last)
      BY <3>3
    <3>6. /\ pre \in Seq(Queries)
          /\ \A i \in DOMAIN pre : \/ \E o \in batch : pre[i] = <<"key", o>>
                                   \/ i = Len(pre) /\ Len(next) = 1 /\ pre[i] = next[1]
          /\ \A o \in batch : \E i \in DOMAIN pre : pre[i] = <<"key", o>>
          /\ Len(next) = 1 => \E i \in DOMAIN pre : pre[i] = next[1]
      BY <3>1, <3>3, <3>4, <3>5, BatchIs
    <3>7. QED
      BY <3>3, <3>5, <3>6
  <2>7. PICK rest : rest = pre \o Tail(s)
    OBVIOUS
  <2>8. rest = pre
    <3>1. PICK Q : Q = Queries
      OBVIOUS
    <3>2. s \in Seq(Q) /\ s # <<>> /\ pre \in Seq(Q)
      BY <2>5, <2>6, <3>1
    <3>3. PICK u : u = Tail(s)
      OBVIOUS
    <3>4. u \in Seq(Q) /\ Len(u) = 0
      BY <2>5, <3>2, <3>3, HeadTailProperties
    <3>5. u = <<>>
      BY <3>4
    <3>6. QED
      BY <2>7, <3>2, <3>3, <3>5, ConcatEmptySeq
  <2>9. Continue(s, rest)
    BY <2>4, <2>8
  <2>10. \A i \in DOMAIN pre : /\ pre[i][1] \in {"scan", "key"} => Engine = "redis"
                               /\ pre[i][1] = "scan" =>
                                     /\ i = Len(pre) /\ Len(s) = 1
                                     /\ pre[i][2] \subseteq server.objects
                               /\ pre[i][1] = "key" => pre[i][2] \in seen
    <3>1. SUFFICES ASSUME NEW i \in DOMAIN pre
                   PROVE  /\ pre[i][1] = "scan" => i = Len(pre) /\ pre[i][2] \subseteq server.objects
                          /\ pre[i][1] = "key" => pre[i][2] \in seen
      BY <2>5
    <3>2. CASE \E o \in batch : pre[i] = <<"key", o>>
      BY <2>5, <3>2
    <3>3. CASE i = Len(pre) /\ pre[i] = <<"scan", passed>>
      <4>1. passed \subseteq server.objects
        BY <2>2, <2>5
      <4>2. QED
        BY <3>3, <4>1
    <3>4. QED
      BY <2>6, <3>2, <3>3
  <2>11. ChainsSound'
    BY <2>6, <2>7, <2>9, <2>10, ChainsKept DEF DriversInv
  <2>12. TablesFirst'
    BY <2>5, <2>6, <2>7, <2>9, OrderKept DEF DriversInv, Nested
  <2>13. ASSUME NEW o \in Meant(stable), Serves(Head(s), o) PROVE Awaited(o)'
    <3>1. o \in stable /\ o \in catalog /\ o \notin Head(s)[2]
      BY <1>1, <2>5, <2>13, RedisMeans
    <3>2. CASE o \in batch
      <4>1. PICK i \in DOMAIN pre : pre[i] = <<"key", o>>
        BY <2>6, <3>2
      <4>2. Serves(pre[i], o)
        BY <2>5, <4>1 DEF Serves
      <4>3. QED
        BY <2>6, <2>7, <2>9, <4>2, StillAwaited DEF DriversInv
    <3>3. CASE o \notin batch
      <4>1. ~last /\ o \notin passed
        BY <2>2, <2>4, <3>1, <3>3
      <4>2. PICK i \in DOMAIN pre : pre[i] = <<"scan", passed>>
        BY <2>6, <4>1
      <4>3. Serves(pre[i], o)
        BY <2>5, <4>1, <4>2 DEF Serves
      <4>4. QED
        BY <2>6, <2>7, <2>9, <4>3, StillAwaited DEF DriversInv
    <3>4. QED
      BY <3>2, <3>3
  <2>14. Complete'
    BY <1>1, <2>6, <2>7, <2>9, <2>13, CompleteKept
  <2>15. TypeOK'
    BY <1>1, <2>5 DEF DriversInv, TypeOK
  <2>16. QED
    BY <1>1, <2>5, <2>11, <2>12, <2>14, <2>15, StepKeepsInv
<1>4. QED
    BY <1>2, <1>3

(* A chain goes on with its next query.                                    *)
LEMMA NextQuery ==
    ASSUME DriversInv, NEW s \in todo, Continue(s, Tail(s)), server' = server, caps' = caps, seen' = seen
    PROVE  /\ ChainsSound' /\ TablesFirst'
           /\ UNCHANGED <<status, stable>> /\ got \subseteq got' /\ skipped \subseteq skipped'
              /\ (taken = SampleLimit => taken' = SampleLimit)
              /\ (\A o \in Meant(stable) : Serves(Head(s), o) => Answered(o, got') \/ Excused(o)' \/ Awaited(o)')
              => Complete'
<1>1. PICK pre, rest : pre = <<>> /\ rest = pre \o Tail(s)
    OBVIOUS
<1>2. pre \in Seq(Queries) /\ DOMAIN pre = {}
    BY <1>1
<1>3. rest = Tail(s)
  <2>1. PICK Q : Q = Queries
    OBVIOUS
  <2>2. s \in Seq(Q) /\ s # <<>>
    BY <2>1, Fetching
  <2>3. Tail(s) \in Seq(Q)
    BY <2>2, HeadTailProperties
  <2>4. QED
    BY <1>1, <2>3, ConcatEmptySeq
<1>4. Continue(s, rest)
    BY <1>3
<1>5. ChainsSound'
    BY <1>1, <1>2, <1>4, ChainsKept DEF DriversInv
<1>6. TablesFirst'
    BY <1>1, <1>2, <1>4, OrderKept DEF DriversInv
<1>7. ASSUME UNCHANGED <<status, stable>>, got \subseteq got', skipped \subseteq skipped',
             taken = SampleLimit => taken' = SampleLimit,
             \A o \in Meant(stable) : Serves(Head(s), o) => Answered(o, got') \/ Excused(o)' \/ Awaited(o)'
      PROVE  Complete'
    BY <1>1, <1>2, <1>4, <1>7, CompleteKept
<1>8. QED
    BY <1>5, <1>6, <1>7

(* TYPE and TTL of a key.                                                  *)
LEMMA UnknownIs ==
    ASSUME NEW key, IsObject(key), NEW r, r = [key EXCEPT !.keys = {"unknown"}]
    PROVE  Same(r, key) /\ r.kind # "field"
<1>1. /\ key = [kind |-> key.kind, schema |-> key.schema, name |-> key.name, on |-> key.on, keys |-> key.keys]
      /\ key.kind \in ObjectKinds
    BY DEF IsObject
<1>2. r.kind = key.kind /\ r.schema = key.schema /\ r.name = key.name /\ r.on = key.on
    BY <1>1
<1>3. QED
    BY <1>1, <1>2 DEF Same, ObjectKinds

(* One key of the sample, when there is still room in it.                  *)
LEMMA InspectInv ==
    ASSUME DriversInv, NEW s \in todo, Inspect(s), UNCHANGED <<server, catalog, caps, answer, ddl, seen, stable>>
    PROVE  DriversInv'
<1>1. Head(s)[1] = "key" /\ UNCHANGED <<status, skipped>>
    BY DEF Inspect
<1>2. CASE taken >= SampleLimit
  <2>1. Continue(s, <<>>) /\ UNCHANGED <<got, taken, faults>>
    BY <1>2 DEF Inspect
  <2>2. QED
    BY <1>1, <1>2, <2>1, LimitInv
<1>3. CASE ~(taken >= SampleLimit)
  <2>1. PICK key : key = Head(s)[2]
    OBVIOUS
  <2>2. /\ Continue(s, Tail(s)) /\ taken' = taken + 1
        /\ \/ /\ key \in catalog
              /\ got' = got \cup {Row(key, key.on)}
              /\ UNCHANGED faults
           \/ /\ \/ key \notin catalog /\ UNCHANGED faults
                 \/ faults < MaxFaults /\ faults' = faults + 1
              /\ got' = got \cup {[key EXCEPT !.keys = {"unknown"}]}
    BY <1>3, <2>1 DEF Inspect
  <2>3. /\ Engine = "redis" /\ Head(s) = <<"key", key>> /\ key \in seen
        /\ server \in Servers /\ seen \subseteq server.objects /\ catalog \subseteq server.objects
        /\ status = "fetching" /\ answer = {} /\ \A r \in got : Known(r)
    BY <1>1, <2>1, HeadSound, Fetching
  <2>4. IsObject(key)
    BY <2>3, ObjectsOf
  <2>5. /\ taken \in Nat /\ taken + 1 <= SampleLimit /\ faults \in Nat /\ taken # SampleLimit
        /\ faults' \in 0..MaxFaults /\ (faults > 0 => faults' > 0)
    BY <1>3, <2>2, DriversAssumption DEF DriversInv, TypeOK
  <2>6. TypeOK'
    BY <1>1, <2>2, <2>3, <2>5 DEF DriversInv, TypeOK
  <2>7. PICK row : /\ got' = got \cup {row}
                   /\ row = Row(key, key.on) \/ row = [key EXCEPT !.keys = {"unknown"}]
    BY <2>2
  <2>8. Same(row, key) /\ row.kind # "field"
    BY <2>4, <2>7, RowIs, UnknownIs DEF Same
  <2>9. \A r \in got' : Known(r)
    BY <2>3, <2>7, <2>8 DEF Known, Tells
  <2>10. ASSUME NEW o \in Meant(stable), Serves(Head(s), o) PROVE Answered(o, got')
    <3>1. Head(s) = <<"key", o>> /\ o.kind \notin {"index", "fk"}
      BY <1>1, <2>3, <2>10, RedisMeans
    <3>2. key = o
      BY <2>3, <3>1
    <3>3. QED
      BY <2>7, <2>8, <3>1, <3>2 DEF Answered, WithColumns
  <2>11. ChainsSound' /\ TablesFirst' /\ Complete'
    BY <1>1, <2>2, <2>5, <2>7, <2>10, NextQuery
  <2>12. QED
    BY <2>6, <2>9, <2>11, StepKeepsInv
<1>4. QED
    BY <1>2, <1>3

(* A query fails.                                                          *)
LEMMA FailInv ==
    ASSUME DriversInv, NEW s \in todo, Fail(s), UNCHANGED <<server, catalog, caps, answer, ddl, seen, stable>>
    PROVE  DriversInv'
<1>1. /\ Head(s)[1] # "key" /\ UNCHANGED taken
      /\ \/ Rejects(Head(s)) /\ UNCHANGED faults
         \/ faults < MaxFaults /\ faults' = faults + 1
    BY DEF Fail
<1>2. faults' \in 0..MaxFaults
    BY <1>1, DriversAssumption DEF DriversInv, TypeOK
<1>3. status = "fetching" /\ answer = {} /\ \A r \in got : Known(r)
    BY Fetching
<1>4. Engine' = Engine
    BY DEF Engine
<1>5. CASE Optional(Head(s))
  <2>1. Continue(s, Tail(s)) /\ skipped' = skipped \cup {Head(s)} /\ UNCHANGED <<status, got>>
    BY <1>5 DEF Fail
  <2>2. TypeOK'
    BY <1>1, <1>2, <1>3, <2>1 DEF DriversInv, TypeOK
  <2>3. ASSUME NEW o \in Meant(stable), Serves(Head(s), o) PROVE Excused(o)'
    <3>1. CASE Engine = "mongodb" /\ Head(s)[1] \in MongoOptional
      <4>1. Head(s)[1] \in {"stats", "field", "index", "validator"}
        BY <3>1 DEF MongoOptional
      <4>2. AskedLater = {"stats", "field", "index", "validator"}
        BY <3>1, AskedLaterIs
      <4>3. o.kind \in PartKinds /\ Head(s) = <<o.kind, o.on[2]>>
        BY <2>3, <3>1, <4>1, <4>2 DEF Serves
      <4>4. Child(o)
        <5>1. o \in Listed(stable)
          BY <2>3 DEF Meant
        <5>2. QED
          BY <4>3, <5>1, MeantIsThere
      <4>5. QED
        BY <1>4, <2>1, <3>1, <4>3, <4>4 DEF Excused
    <3>2. CASE Engine = "redis" /\ Head(s)[1] \in RedisOptional
      <4>1. Head(s)[1] = "scan" \/ Head(s)[1] = "key"
        BY <2>3, <3>2, RedisMeans
      <4>2. QED
        BY <1>1, <3>2, <4>1 DEF RedisOptional
    <3>3. QED
      BY <1>5, <3>1, <3>2 DEF Optional
  <2>4. ChainsSound' /\ TablesFirst' /\ Complete'
    BY <1>1, <1>2, <2>1, <2>3, NextQuery
  <2>5. QED
    BY <1>3, <2>1, <2>2, <2>4, StepKeepsInv
<1>6. CASE ~Optional(Head(s))
  <2>1. status' = "failed" /\ todo' = {} /\ got' = {} /\ UNCHANGED skipped
    BY <1>6 DEF Fail
  <2>2. TypeOK'
    BY <1>1, <1>2, <1>3, <2>1 DEF DriversInv, TypeOK
  <2>3. ChainsSound' /\ TablesFirst' /\ Complete'
    BY <2>1 DEF ChainsSound, TablesFirst, Complete
  <2>4. QED
    BY <2>1, <2>2, <2>3, StepKeepsInv
<1>7. QED
    BY <1>5, <1>6
-----------------------------------------------------------------------------
(* The steps outside a fetch, and those that begin and end one.            *)
LEMMA InitInv ==
    ASSUME Init
    PROVE  DriversInv
<1>1. /\ server \in Servers /\ catalog = server.initial /\ status = "closed" /\ todo = {} /\ got = {}
      /\ taken = 0 /\ answer = {} /\ faults = 0 /\ ddl = 0 /\ seen = {} /\ stable = {}
      /\ skipped = {}
    BY DEF Init
<1>2. /\ SampleLimit \in Nat /\ MaxFaults \in Nat
      /\ server.initial \subseteq server.objects /\ server.ddl \in Nat
    BY <1>1, DriversAssumption
<1>3. TypeOK
    BY <1>1, <1>2 DEF TypeOK
<1>4. ChainsSound /\ TablesFirst /\ Complete
    BY <1>1 DEF ChainsSound, TablesFirst, Complete
<1>5. QED
    BY <1>1, <1>3, <1>4 DEF DriversInv

LEMMA ConnectInv ==
    ASSUME DriversInv, Connect
    PROVE  DriversInv'
<1>1. /\ status = "closed" /\ UNCHANGED <<server, catalog, todo, got, taken, answer, ddl, seen, stable>>
      /\ status' = "closed" \/ (status' = "ready" /\ caps' = Capabilities(server))
      /\ faults' = faults \/ (faults < MaxFaults /\ faults' = faults + 1)
    BY DEF Connect
<1>2. TypeOK /\ todo = {} /\ got = {} /\ answer = {} /\ stable \subseteq catalog /\ seen \subseteq server.objects
    BY <1>1 DEF DriversInv, TypeOK
<1>3. faults' \in 0..MaxFaults
    BY <1>1, <1>2, DriversAssumption DEF TypeOK
<1>4. TypeOK'
    BY <1>1, <1>2, <1>3 DEF TypeOK
<1>5. ChainsSound' /\ TablesFirst' /\ Complete'
    BY <1>1, <1>2 DEF ChainsSound, TablesFirst, Complete
<1>6. status' # "closed" => caps' = Capabilities(server)'
    BY <1>1
<1>7. QED
    BY <1>1, <1>2, <1>4, <1>5, <1>6 DEF DriversInv

(* What is meant is served by some query that a fetch begins with.         *)
LEMMA WorkServes ==
    ASSUME server \in Servers, catalog \subseteq server.objects, NEW o \in Meant(catalog)
    PROVE  \E s \in Work : \E i \in DOMAIN s : Serves(s[i], o)
<1>1. /\ o \in Listed(catalog)
      /\ Child(o) /\ o.kind \in AskedLater => \E p \in Parent(o, Listed(catalog)) : p.kind \in {"table", "collection"}
    BY DEF Meant
<1>2. /\ o \in catalog /\ IsObject(o) /\ o.kind \in Asked \cup AskedLater /\ Engine \in Engines
      /\ o.kind \in ObjectKinds /\ (Child(o) <=> o.kind \in PartKinds)
    BY <1>1, ObjectsOf DEF Listed, IsObject
<1>3. CASE Engine = "redis"
  <2>1. PICK s \in Work : Plain(RedisInfo(caps)) /\ s = RedisInfo(caps) \o <<<<"scan", {}>>>>
    BY <1>2, <1>3, WorkSound
  <2>2. Len(s) \in DOMAIN s /\ s[Len(s)] = <<"scan", {}>>
    BY <2>1, RedisWorkIs
  <2>3. Serves(s[Len(s)], o)
    BY <1>3, <2>2 DEF Serves
  <2>4. QED
    BY <2>2, <2>3
<1>4. CASE Engine # "redis" /\ o.kind \notin AskedLater
  <2>1. PICK s \in Work : \E i \in DOMAIN s : s[i] = <<o.kind, Null>>
    BY <1>2, <1>4, AskedIs
  <2>2. QED
    BY <1>4, <2>1 DEF Serves
<1>5. CASE Engine # "redis" /\ o.kind \in AskedLater
  <2>1. Engine \in {"sqlite", "mongodb"}
    BY <1>2, <1>5, AskedLaterIs DEF Engines, Nested
  <2>2. o.kind \in PartKinds
    BY <1>2, <1>5, <2>1, AskedLaterIs DEF PartKinds, ObjectKinds
  <2>3. PICK p \in Parent(o, Listed(catalog)) : p.kind \in {"table", "collection"}
    BY <1>1, <1>2, <1>5, <2>2
  <2>4. p.kind \in Asked \cup AskedLater
    BY <2>3 DEF Parent, Listed
  <2>5. p.kind \in Asked /\ p.kind = Owner
    BY <1>2, <2>1, <2>3, <2>4, AskedIs, AskedLaterIs DEF Owner
  <2>6. PICK s \in Work : \E i \in DOMAIN s : s[i] = <<p.kind, Null>>
    BY <1>2, <1>5, <2>5, AskedIs
  <2>7. PICK i \in DOMAIN s : s[i] = <<p.kind, Null>>
    BY <2>6
  <2>8. \/ Engine = "sqlite" /\ s[i] = <<"table", Null>>
        \/ Engine = "mongodb" /\ s[i] = <<"collection", Null>>
    BY <2>1, <2>5, <2>7 DEF Owner
  <2>9. QED
    BY <1>5, <2>2, <2>8 DEF Serves
<1>6. QED
    BY <1>2, <1>3, <1>4, <1>5

LEMMA WorkIsSound ==
    ASSUME server \in Servers, catalog \subseteq server.objects
    PROVE  /\ Work \subseteq Seq(Queries) \ {<<>>}
           /\ \A s \in Work : \A i \in DOMAIN s :
                 /\ s[i][1] \in {"scan", "key"} => Engine = "redis"
                 /\ s[i][1] = "scan" => i = Len(s) /\ s[i][2] \subseteq server.objects
                 /\ s[i][1] # "key"
           /\ Nested => \A s, x \in Work : InOrder(s, x)
<1>1. Engine \in Engines
    BY ObjectsOf
<1>2. CASE Engine = "redis"
  <2>1. \A s \in Work : Plain(RedisInfo(caps)) /\ s = RedisInfo(caps) \o <<<<"scan", {}>>>>
    BY <1>1, <1>2, WorkSound
  <2>2. ASSUME NEW s \in Work
        PROVE  /\ s \in Seq(Queries) \ {<<>>}
               /\ \A i \in DOMAIN s : /\ s[i][1] = "scan" => i = Len(s) /\ s[i][2] \subseteq server.objects
                                      /\ s[i][1] # "key"
    <3>1. /\ s \in Seq(Queries) \ {<<>>} /\ s[Len(s)] = <<"scan", {}>>
          /\ \A i \in DOMAIN s : i # Len(s) => s[i][1] \notin {"scan", "key"}
      BY <2>1, RedisWorkIs
    <3>2. QED
      BY <3>1
  <2>3. QED
    BY <1>2, <2>2 DEF Nested
<1>3. CASE Engine # "redis"
  <2>1. \A s \in Work : Plain(s)
    BY <1>1, <1>3, WorkSound
  <2>2. ASSUME NEW s \in Work
        PROVE  s \in Seq(Queries) \ {<<>>} /\ \A i \in DOMAIN s : s[i][1] \notin {"scan", "key"}
    BY <2>1, PlainIsQueries
  <2>3. QED
    BY <1>1, <2>2, WorkSound
<1>4. QED
    BY <1>2, <1>3

LEMMA BeginInv ==
    ASSUME DriversInv, Begin
    PROVE  DriversInv'
<1>1. /\ status' = "fetching" /\ todo' = Work /\ got' = {} /\ taken' = 0 /\ answer' = {}
      /\ seen' = catalog /\ stable' = catalog /\ status # "closed"
      /\ UNCHANGED <<server, catalog, caps, faults, ddl>>
    BY DEF Begin
<1>2. TypeOK /\ server \in Servers /\ catalog \subseteq server.objects
    BY DEF DriversInv, TypeOK
<1>3. TypeOK'
    BY <1>1, <1>2, DriversAssumption DEF TypeOK
<1>4. Engine' = Engine /\ AskedLater' = AskedLater /\ Queries' = Queries
    BY <1>1, WorkStays DEF Queries, Names
<1>5. ChainsSound'
    BY <1>1, <1>2, <1>4, WorkIsSound DEF ChainsSound
<1>6. TablesFirst'
    BY <1>1, <1>2, <1>4, WorkIsSound DEF TablesFirst, InOrder, Nested
<1>7. PICK S : S = catalog
    OBVIOUS
<1>8. Meant(stable)' = Meant(catalog)
  <2>1. Meant(S)' = Meant(S)
    BY <1>1, MeantStays
  <2>2. stable' = S
    BY <1>1, <1>7
  <2>3. Meant(stable)' = Meant(S)'
    BY <2>2
  <2>4. QED
    BY <1>7, <2>1, <2>3
<1>9. \A q, o : Serves(q, o)' = Serves(q, o)
    BY <1>4 DEF Serves
<1>10. \A o \in Meant(catalog) : Awaited(o)'
    BY <1>1, <1>2, <1>9, WorkServes DEF Awaited
<1>11. Complete'
    BY <1>1, <1>8, <1>10 DEF Complete
<1>12. (caps = Capabilities(server))'
    BY <1>1 DEF DriversInv
<1>13. QED
    BY <1>1, <1>2, <1>3, <1>5, <1>6, <1>11, <1>12 DEF DriversInv

LEMMA FinishInv ==
    ASSUME DriversInv, Finish
    PROVE  DriversInv'
<1>1. /\ status = "fetching" /\ todo = {} /\ status' = "done" /\ answer' = Grouped(got) /\ got' = {}
      /\ UNCHANGED <<server, catalog, caps, todo, taken, faults, ddl, seen, stable, skipped>>
    BY DEF Finish
<1>2. /\ TypeOK /\ stable \subseteq catalog /\ seen \subseteq server.objects /\ catalog \subseteq seen
      /\ \A r \in got : Known(r)
    BY <1>1 DEF DriversInv
<1>3. TypeOK'
    BY <1>1, <1>2 DEF TypeOK
<1>4. Engine' = Engine
    BY <1>1 DEF Engine
<1>5. answer' \subseteq got
    BY <1>1, GroupedMonotone
<1>6. \A r \in (got \cup answer)' : Known(r)'
    BY <1>1, <1>2, <1>5, KnownStays
<1>7. ChainsSound' /\ TablesFirst'
    BY <1>1 DEF ChainsSound, TablesFirst
<1>8. PICK M, R : M = Meant(stable) /\ R = got
    OBVIOUS
<1>9. \A o \in M : Answered(o, R) \/ Excused(o)
    BY <1>1, <1>8 DEF DriversInv, Complete, Awaited
<1>10. Reportable' = Grouped(M)
  <2>1. PICK S : S = stable
    OBVIOUS
  <2>2. Meant(stable)' = M
    <3>1. Meant(S)' = Meant(S) /\ stable' = S
      BY <1>1, <2>1, MeantStays
    <3>2. Meant(stable)' = Meant(S)'
      BY <3>1
    <3>3. QED
      BY <1>8, <2>1, <3>1, <3>2
  <2>3. Reportable' = Grouped(M)'
    BY <2>2 DEF Reportable
  <2>4. QED
    BY <1>1, <2>3, GroupedStays
<1>11. \A o \in Grouped(M) : Answered(o, Grouped(R)) \/ Excused(o)
  <2>1. CASE Engine \in {"postgresql", "oracle", "sqlserver"}
    <3>1. \A o \in M : Answered(o, R)
      BY <1>9, <2>1 DEF Excused
    <3>2. QED
      BY <2>1, <3>1, GroupedAnswers
  <2>2. CASE Engine \notin {"postgresql", "oracle", "sqlserver"}
    BY <1>9, <2>2, GroupedIs
  <2>3. QED
    BY <2>1, <2>2
<1>12. \A o, rows : (Answered(o, rows) => Answered(o, rows)') /\ (Excused(o) => Excused(o)')
    BY <1>1, <1>4 DEF Answered, WithColumns, Excused
<1>13. PICK G : G = Grouped(R)
    OBVIOUS
<1>14. \A o \in Reportable' : Answered(o, answer)' \/ Excused(o)'
  <2>1. \A o \in Reportable' : Answered(o, G)' \/ Excused(o)'
    BY <1>10, <1>11, <1>12, <1>13
  <2>2. answer' = G
    BY <1>1, <1>8, <1>13
  <2>3. QED
    BY <2>1, <2>2 DEF Answered
<1>15. Complete'
    BY <1>1, <1>14 DEF Complete
<1>16. (caps = Capabilities(server))'
    BY <1>1 DEF DriversInv
<1>17. QED
    BY <1>1, <1>2, <1>3, <1>6, <1>7, <1>15, <1>16 DEF DriversInv

(* Objects come and go during a fetch: what is meant of those that were    *)
(* there throughout only becomes less.                                     *)
LEMMA DdlInv ==
    ASSUME DriversInv, Ddl
    PROVE  DriversInv'
<1>1. /\ TypeOK /\ stable \subseteq catalog /\ seen \subseteq server.objects
      /\ server \in Servers /\ catalog \subseteq server.objects
    BY DEF DriversInv, TypeOK
<1>2. Changed /\ catalog' \subseteq server.objects
  <2>1. CASE \E o \in server.objects \ catalog : Create(o)
    BY <1>1, <2>1 DEF Create
  <2>2. CASE \E o \in catalog : Drop(o)
    BY <1>1, <2>2 DEF Drop
  <2>3. QED
    BY <2>1, <2>2 DEF Ddl
<1>3. /\ ddl < server.ddl /\ ddl' = ddl + 1
      /\ seen' = seen \cup catalog' /\ stable' = stable \cap catalog'
      /\ UNCHANGED <<server, status, caps, todo, got, taken, answer, faults, skipped>>
    BY <1>2 DEF Changed
<1>4. ddl' \in 0..server.ddl
  <2>1. server.ddl \in Nat /\ ddl \in 0..server.ddl
    BY <1>1, DriversAssumption DEF TypeOK
  <2>2. QED
    BY <1>3, <2>1
<1>5. TypeOK'
  <2>1. stable' \subseteq seen'
    BY <1>1, <1>3 DEF TypeOK
  <2>2. QED
    BY <1>1, <1>2, <1>3, <1>4, <2>1 DEF TypeOK
<1>6. Engine' = Engine /\ Queries' = Queries /\ AskedLater' = AskedLater
    BY <1>3, WorkStays DEF Queries, Names
<1>7. ChainsSound'
  <2>1. seen \subseteq seen' /\ todo' = todo /\ server' = server
    BY <1>3
  <2>2. ChainsSound
    BY DEF DriversInv
  <2>3. QED
    BY <1>6, <2>1, <2>2 DEF ChainsSound
<1>8. TablesFirst'
    BY <1>3, <1>6 DEF DriversInv, TablesFirst, Nested
<1>9. \A r \in (got \cup answer)' : Known(r)'
    BY <1>3, KnownStays DEF DriversInv
<1>10. PICK S, T : S = stable /\ T = stable'
    OBVIOUS
<1>11. Meant(T) \subseteq Meant(S) /\ Meant(T)' = Meant(T) /\ Grouped(Meant(T)) \subseteq Grouped(Meant(S))
  <2>1. Meant(T) \subseteq Meant(S)
    BY <1>1, <1>3, <1>10, ObjectsOf, MeantMonotone
  <2>2. Meant(T)' = Meant(T)
    BY <1>3, MeantStays
  <2>3. PICK M, N : M = Meant(T) /\ N = Meant(S)
    OBVIOUS
  <2>4. Grouped(M) \subseteq Grouped(N)
    BY <2>1, <2>3, GroupedMonotone
  <2>5. QED
    BY <2>1, <2>2, <2>3, <2>4
<1>12. PICK M : M = Meant(T)
    OBVIOUS
<1>13. Meant(stable)' = M /\ Reportable' = Grouped(M)
  <2>1. Meant(stable)' = Meant(T)'
    BY <1>10
  <2>2. Meant(stable)' = M
    BY <1>11, <1>12, <2>1
  <2>3. Reportable' = Grouped(M)'
    BY <2>2 DEF Reportable
  <2>4. QED
    BY <1>3, <2>2, <2>3, GroupedStays
<1>14. \A o, q : (Serves(q, o)' <=> Serves(q, o)) /\ (Excused(o)' <=> Excused(o))
    BY <1>3, <1>6 DEF Serves, Excused
<1>15. /\ \A o : (Awaited(o) => Awaited(o)') /\ (Answered(o, got) => Answered(o, got)')
       /\ \A o : Answered(o, answer) => Answered(o, answer)'
    BY <1>3, <1>6, <1>14 DEF Awaited, Answered, WithColumns
<1>16. Complete'
  <2>1. ASSUME status = "fetching", NEW o \in M PROVE (Answered(o, got) \/ Excused(o) \/ Awaited(o))'
    BY <1>10, <1>11, <1>12, <1>14, <1>15, <2>1 DEF DriversInv, Complete
  <2>2. ASSUME status = "done", NEW o \in Grouped(M) PROVE (Answered(o, answer) \/ Excused(o))'
    <3>1. o \in Reportable
      BY <1>10, <1>11, <1>12 DEF Reportable
    <3>2. QED
      BY <1>14, <1>15, <2>2, <3>1 DEF DriversInv, Complete
  <2>3. QED
    BY <1>3, <1>13, <2>1, <2>2 DEF Complete
<1>17. (stable \subseteq catalog)' /\ (seen \subseteq server.objects)' /\ (catalog \subseteq seen)'
    BY <1>1, <1>2, <1>3
<1>18. (status # "closed" => caps = Capabilities(server))'
    BY <1>3 DEF DriversInv
<1>19. QED
    BY <1>5, <1>7, <1>8, <1>9, <1>16, <1>17, <1>18 DEF DriversInv
-----------------------------------------------------------------------------
(* Every step keeps the invariant.                                         *)
LEMMA DriversInvStep ==
    ASSUME DriversInv, [Next]_vars
    PROVE  DriversInv'
<1>1. CASE Connect
    BY <1>1, ConnectInv
<1>2. CASE Begin
    BY <1>2, BeginInv
<1>3. CASE Finish
    BY <1>3, FinishInv
<1>4. CASE Ddl
    BY <1>4, DdlInv
<1>5. ASSUME NEW s \in todo, Step(s) PROVE DriversInv'
  <2>1. UNCHANGED <<server, catalog, caps, answer, ddl, seen, stable>>
    BY <1>5 DEF Step
  <2>2. CASE Query(s)
    BY <2>1, <2>2, QueryInv
  <2>3. CASE Scan(s)
    BY <2>1, <2>3, ScanInv
  <2>4. CASE Inspect(s)
    BY <2>1, <2>4, InspectInv
  <2>5. CASE Fail(s)
    BY <2>1, <2>5, FailInv
  <2>6. QED
    BY <1>5, <2>2, <2>3, <2>4, <2>5 DEF Step
<1>6. CASE UNCHANGED vars
  <2>1. UNCHANGED <<server, catalog, status, caps, todo, got, taken, answer, faults, ddl, seen, stable,
                    skipped>>
    BY <1>6 DEF vars
  <2>2. Engine' = Engine /\ Queries' = Queries /\ AskedLater' = AskedLater /\ Work' = Work
    BY <2>1, WorkStays DEF Queries, Names
  <2>3. TypeOK'
    BY <2>1 DEF DriversInv, TypeOK
  <2>4. ChainsSound' /\ TablesFirst'
    BY <2>1, <2>2 DEF DriversInv, ChainsSound, TablesFirst, Nested
  <2>5. \A r \in (got \cup answer)' : Known(r)'
    BY <2>1, KnownStays DEF DriversInv
  <2>6. PICK M : M = Meant(stable)
    OBVIOUS
  <2>7. Meant(stable)' = M /\ Reportable' = Grouped(M)
    <3>1. PICK S : S = stable
      OBVIOUS
    <3>2. Meant(S)' = Meant(S) /\ stable' = S
      BY <2>1, <3>1, MeantStays
    <3>3. Meant(stable)' = Meant(S)'
      BY <3>2
    <3>4. Meant(stable)' = M
      BY <2>6, <3>1, <3>2, <3>3
    <3>5. Reportable' = Grouped(M)'
      BY <3>4 DEF Reportable
    <3>6. QED
      BY <2>1, <3>4, <3>5, GroupedStays
  <2>8. \A o, q : (Serves(q, o)' <=> Serves(q, o)) /\ (Excused(o)' <=> Excused(o))
    BY <2>1, <2>2 DEF Serves, Excused
  <2>9. \A o : /\ Awaited(o) => Awaited(o)'
               /\ Answered(o, got) => Answered(o, got)'
               /\ Answered(o, answer) => Answered(o, answer)'
    BY <2>1, <2>2, <2>8 DEF Awaited, Answered, WithColumns
  <2>10. Complete'
    BY <2>1, <2>6, <2>7, <2>8, <2>9 DEF DriversInv, Complete, Reportable
  <2>11. (status # "closed" => caps = Capabilities(server))'
    BY <2>1 DEF DriversInv
  <2>12. QED
    BY <2>1, <2>3, <2>4, <2>5, <2>10, <2>11 DEF DriversInv
<1>7. QED
    BY <1>1, <1>2, <1>3, <1>4, <1>5, <1>6 DEF Next

-----------------------------------------------------------------------------
(* What the drivers describe is asked for, but for the procedures of       *)
(* PostgreSQL below 14: what else the version gates leave out is not there *)
(* on those releases.                                                      *)
LEMMA AskedInChains == \A s \in Work : \A k \in KindsOf(s) : k \in Asked
<1>1. SUFFICES ASSUME NEW s \in Work, NEW i \in DOMAIN s PROVE s[i][1] \in Asked
    BY DEF KindsOf
<1>2. s[i] \in UNION {ToSet(x) : x \in Work}
    BY DEF ToSet
<1>3. QED
    BY <1>2 DEF Asked

LEMMA SequencesWhereThere ==
    ASSUME caps = Capabilities(server), Exists(server, "sequence")
    PROVE  Engine \in {"mysql", "sqlserver"} => caps.sequences
<1>1. PICK v : v = Parse(server.banner)
    OBVIOUS
<1>2. CASE Engine = "mysql"
  <2>1. caps = ForMariaDb(v) /\ AtLeast(v, 10, 3)
    BY <1>1, <1>2 DEF Capabilities, BuildCapabilities, Exists, Engine
  <2>2. QED
    BY <2>1 DEF ForMariaDb, NoCapabilities
<1>3. CASE Engine = "sqlserver"
  <2>1. caps = ForSqlServer(v) /\ v.major >= 11
    BY <1>1, <1>3 DEF Capabilities, Exists, Engine
  <2>2. QED
    BY <2>1 DEF ForSqlServer, NoCapabilities
<1>4. QED
    BY <1>2, <1>3

LEMMA ProceduresFrom14 ==
    ASSUME caps = Capabilities(server), Engine = "postgresql", AtLeast(Parse(server.banner), 14, 0)
    PROVE  caps.procedures
<1>1. PICK v : v = Parse(server.banner)
    OBVIOUS
<1>2. caps = ForPostgres(v) /\ AtLeast(v, 14, 0)
    BY <1>1 DEF Capabilities, Engine
<1>3. QED
    BY <1>2 DEF ForPostgres, NoCapabilities

LEMMA DescribedIsAsked ==
    ASSUME Engine \in Engines, caps = Capabilities(server), NEW k \in Described, Exists(server, k),
           ~(Engine = "postgresql" /\ k = "procedure" /\ ~AtLeast(Parse(server.banner), 14, 0))
    PROVE  k \in Asked \cup AskedLater
<1>1. ASSUME NEW j \in QueryKinds \ {"scan", "key"}, Each(<<j>>) \in Work PROVE j \in Asked
    BY <1>1, OneKindChain, AskedInChains
<1>2. ASSUME TablesChain \in Work PROVE TableKinds \subseteq Asked
    BY <1>2, TablesChainIs, AskedInChains
<1>3. CASE Engine = "postgresql"
  <2>1. k \in TableKinds \/ k \in PostgresOthers(caps)
    BY <1>3, ProceduresFrom14 DEF Described, TableKinds, PostgresOthers
  <2>2. /\ TablesChain \in Work /\ \A j \in PostgresOthers(caps) : Each(<<j>>) \in Work
        /\ PostgresOthers(caps) \subseteq QueryKinds \ {"scan", "key"}
    BY <1>3, WorkIs DEF PostgresWork, PostgresTables, TablesChain, PostgresOthers, QueryKinds, ObjectKinds
  <2>3. QED
    BY <1>1, <1>2, <2>1, <2>2
<1>4. CASE Engine = "mysql"
  <2>1. \/ k \in TableKinds \/ k \in {"procedure", "argument"} \/ k \in {"view", "function", "event"}
        \/ k = "sequence" /\ caps.sequences
    BY <1>4, SequencesWhereThere DEF Described, TableKinds
  <2>2. /\ TablesChain \in Work /\ ProceduresChain \in Work
        /\ \A j \in {"view", "function", "event"} : Each(<<j>>) \in Work
        /\ caps.sequences => Each(<<"sequence">>) \in Work
    BY <1>4, WorkIs DEF MySqlWork, MySqlOthers, MySqlTables, TablesChain, ProceduresChain
  <2>3. {"procedure", "argument"} \subseteq Asked
    BY <2>2, ProceduresChainIs, AskedInChains
  <2>4. {"view", "function", "event", "sequence"} \subseteq QueryKinds \ {"scan", "key"}
    BY DEF QueryKinds, ObjectKinds
  <2>5. QED
    BY <1>1, <1>2, <2>1, <2>2, <2>3, <2>4
<1>5. CASE Engine = "sqlite"
  <2>1. \A j \in {"table", "view", "trigger"} : Each(<<j>>) \in Work /\ j \in QueryKinds \ {"scan", "key"}
    BY <1>5, WorkIs DEF SqliteWork, QueryKinds, ObjectKinds
  <2>2. QED
    BY <1>1, <1>5, <2>1, AskedLaterIs DEF Described
<1>6. CASE Engine = "oracle"
  <2>1. \A s \in Work : TableKinds \cup ToSet(OracleRest) \subseteq KindsOf(s)
    BY <1>6, WorkIs, OracleChains
  <2>2. Work # {}
    BY <1>6, WorkIs DEF OracleWork
  <2>3. ToSet(OracleRest) = {"view", "matview", "function", "procedure", "argument", "sequence", "type",
                             "package", "job"}
    BY DEF OracleRest, ToSet
  <2>4. QED
    BY <1>6, <2>1, <2>2, <2>3, AskedInChains DEF Described, TableKinds
<1>7. CASE Engine = "sqlserver"
  <2>1. \A s \in Work : /\ TableKinds \cup {"view", "function", "procedure", "argument", "type", "job"}
                              \subseteq KindsOf(s)
                        /\ caps.sequences => "sequence" \in KindsOf(s)
    BY <1>7, WorkIs, SqlServerChains
  <2>2. Work # {}
    BY <1>7, WorkIs DEF SqlServerWork
  <2>3. QED
    BY <1>7, <2>1, <2>2, AskedInChains, SequencesWhereThere DEF Described, TableKinds
<1>8. CASE Engine = "mongodb"
  <2>1. Work # {} /\ \A s \in Work : KindsOf(s) = {"collection", "view", "dbstats"}
    BY <1>8, WorkIs, MongoChains DEF MongoWork
  <2>2. QED
    BY <1>8, <2>1, AskedInChains, AskedLaterIs DEF Described
<1>9. CASE Engine = "redis"
    BY <1>9, AskedLaterIs DEF Described
<1>10. QED
    BY <1>3, <1>4, <1>5, <1>6, <1>7, <1>8, <1>9 DEF Engines
(* The driver connected, in a fetch or after it.                           *)
Connected ==
    /\ server \in Servers /\ caps = Capabilities(server)
    /\ catalog \subseteq server.objects /\ stable \subseteq catalog

Gated(o) == Engine = "postgresql" /\ o.kind = "procedure" /\ ~AtLeast(Parse(server.banner), 14, 0)

LEMMA ObjectIs ==
    ASSUME Connected, NEW o \in stable
    PROVE  /\ Engine \in Engines /\ IsObject(o) /\ OwnedWithTable(Engine, o) /\ Exists(server, o.kind)
           /\ o.kind \in ObjectKinds /\ (Child(o) <=> o.kind \in PartKinds)
           /\ Child(o) => o.on = <<o.on[1], o.on[2]>>
<1>1. o \in server.objects /\ server \in Servers /\ catalog \subseteq server.objects
    BY DEF Connected
<1>2. Engine \in Engines /\ IsObject(o) /\ OwnedWithTable(Engine, o) /\ Exists(server, o.kind)
    BY <1>1, ObjectsOf
<1>3. QED
    BY <1>2 DEF IsObject

(* The users' objects of a kind that is described are listed.              *)
LEMMA ScopeIsListed ==
    ASSUME Connected, NEW o \in stable, o.kind \in Described, OfUsers(o.schema), ~Gated(o),
           Engine = "postgresql" /\ o.kind = "index" => o.keys # <<>>,
           Engine = "postgresql" /\ o.kind = "column" => TableOf(o, o.on[1], stable) # {}
    PROVE  o \in Listed(stable)
<1>1. Engine \in Engines /\ Exists(server, o.kind) /\ o.kind \in ObjectKinds
    BY ObjectIs
<1>2. o.kind \in Asked \cup AskedLater
    BY <1>1, DescribedIsAsked DEF Connected, Gated
<1>3. Lists(o, stable)
  <2>1. CASE Engine = "postgresql"
    <3>1. PostgresListsPart(o, stable) /\ PostgresListsOther(o)
      BY <2>1 DEF OfUsers, PostgresListsPart, PostgresListsOther, PostgresHidden
    <3>2. QED
      BY <2>1, <3>1, ListsIs
  <2>2. CASE Engine = "mysql"
    BY <2>2, ListsIs DEF OfUsers, MySqlLists
  <2>3. CASE Engine = "sqlite"
    BY <2>3, ListsIs DEF OfUsers, SqliteLists
  <2>4. CASE Engine = "oracle"
    <3>1. OracleHidden(o.kind) \subseteq {"SYS", "XDB", "MDSYS"}
      BY DEF OracleHidden
    <3>2. QED
      BY <2>4, <3>1, ListsIs DEF OfUsers, OracleLists
  <2>5. CASE Engine = "sqlserver"
    <3>1. SqlServerListsPart(o) /\ SqlServerListsOther(o)
      BY <2>5 DEF OfUsers, SqlServerListsPart, SqlServerListsOther
    <3>2. QED
      BY <2>5, <3>1, ListsIs
  <2>6. CASE Engine \in {"mongodb", "redis"}
    BY <2>6, ListsIs DEF ListsEverything
  <2>7. QED
    BY <1>1, <2>1, <2>2, <2>3, <2>4, <2>5, <2>6 DEF Engines
<1>4. QED
    BY <1>2, <1>3 DEF Listed

LEMMA TopIsMeant ==
    ASSUME Connected, NEW o \in stable, o.kind \in Described, OfUsers(o.schema), ~Gated(o),
           o.kind \notin PartKinds
    PROVE  o \in Listed(stable) /\ o \in Meant(stable)
<1>1. ~Child(o)
    BY ObjectIs
<1>2. o \in Listed(stable)
    BY ScopeIsListed DEF PartKinds
<1>3. Keeps(o, Listed(stable))
    BY <1>1, FilesIs DEF Keeps
<1>4. QED
    BY <1>1, <1>2, <1>3 DEF Meant

(* A part's table, collection or procedure is listed, and the part is      *)
(* filed under it.                                                         *)
LEMMA PartIsMeant ==
    ASSUME Connected, NEW o \in stable, InScope(o), o.kind \in PartKinds, ~KnownLoss(o)
    PROVE  o \in Meant(stable)
<1>1. /\ Engine \in Engines /\ IsObject(o) /\ OwnedWithTable(Engine, o) /\ Child(o)
      /\ o.on = <<o.on[1], o.on[2]>>
    BY ObjectIs
<1>2. o.kind \in Described /\ OfUsers(o.schema)
    BY DEF InScope
<1>3. PICK p \in Parent(o, stable) : p.kind = Whole(o) /\ OfUsers(p.schema)
    BY <1>1 DEF InScope
<1>4. p \in stable /\ p.schema = o.on[1] /\ p.name = o.on[2]
    BY <1>3 DEF Parent
<1>5. /\ p.kind \in {"table", "procedure", "collection"}
      /\ Engine = "mongodb" => p.kind = "collection"
      /\ Engine # "mongodb" => p.kind = Holder(o)
      /\ p.kind = "procedure" => o.kind = "argument"
    BY <1>3 DEF Whole, Holder
<1>6. p.kind \in Described /\ ~Gated(p)
  <2>1. \/ p.kind = "table" \/ p.kind = "collection"
        \/ p.kind = "procedure" /\ o.kind = "argument"
    BY <1>5
  <2>2. CASE Engine = "postgresql"
    <3>1. "argument" \notin Described /\ "table" \in Described
      BY <2>2 DEF Described
    <3>2. p.kind = "table"
      BY <1>2, <1>5, <2>1, <2>2, <3>1 DEF Holder
    <3>3. QED
      BY <3>1, <3>2 DEF Gated
  <2>3. CASE Engine \in {"mysql", "oracle", "sqlserver"}
    <3>1. {"table", "procedure"} \subseteq Described
      BY <2>3 DEF Described
    <3>2. QED
      BY <1>5, <2>1, <2>3, <3>1 DEF Gated, Holder
  <2>4. CASE Engine = "sqlite"
    <3>1. "argument" \notin Described /\ "table" \in Described
      BY <2>4 DEF Described
    <3>2. QED
      BY <1>2, <1>5, <2>1, <2>4, <3>1 DEF Gated, Holder
  <2>5. CASE Engine = "mongodb"
    BY <1>5, <2>5 DEF Described, Gated
  <2>6. CASE Engine = "redis"
    BY <1>2, <2>6 DEF Described, PartKinds
  <2>7. QED
    BY <1>1, <2>2, <2>3, <2>4, <2>5, <2>6 DEF Engines
<1>7. p \in Listed(stable)
    BY <1>3, <1>4, <1>5, <1>6, TopIsMeant DEF PartKinds
<1>8. Engine = "postgresql" => p \in TableOf(o, o.on[1], stable)
    BY <1>4, <1>5 DEF TableOf
<1>9. o \in Listed(stable)
  <2>1. ~Gated(o) /\ (Engine = "postgresql" /\ o.kind = "index" => o.keys # <<>>)
    BY DEF Gated, KnownLoss
  <2>2. QED
    BY <1>2, <1>8, <2>1, ScopeIsListed
<1>10. Keeps(o, Listed(stable))
  <2>1. \A schema : p.schema = schema /\ p.kind = Holder(o) =>
                        o.on \in Under(TableOf(o, schema, Listed(stable)))
    BY <1>1, <1>4, <1>7 DEF Under, TableOf
  <2>2. CASE Engine \in {"sqlite", "mongodb"}
    BY <2>2, FilesIs DEF Keeps
  <2>3. CASE Engine = "postgresql"
    BY <1>1, <1>4, <1>5, <2>1, <2>3, FilesIs DEF Keeps, PostgresFiles
  <2>4. CASE Engine = "mysql"
    <3>1. o.schema = o.on[1]
      BY <1>1, <2>4 DEF OwnedWithTable
    <3>2. o.on \in MySqlFiles(o, Listed(stable))
      BY <1>1, <1>4, <1>5, <1>7, <2>4, <3>1 DEF MySqlFiles
    <3>3. QED
      BY <1>1, <2>4, <3>2, FilesIs DEF Keeps
  <2>5. CASE Engine = "oracle"
    <3>1. o.schema = o.on[1]
      BY <1>1, <2>5 DEF OwnedWithTable, KnownLoss
    <3>2. QED
      BY <1>1, <1>4, <1>5, <2>1, <2>5, <3>1, FilesIs DEF Keeps, OracleFiles
  <2>6. CASE Engine = "sqlserver"
    BY <1>1, <1>4, <1>5, <2>1, <2>6, FilesIs DEF Keeps, SqlServerFiles
  <2>7. CASE Engine = "redis"
    BY <1>2, <2>7 DEF Described, PartKinds
  <2>8. QED
    BY <1>1, <2>2, <2>3, <2>4, <2>5, <2>6, <2>7 DEF Engines
<1>11. o.kind \in AskedLater => p.kind \in {"table", "collection"}
  <2>1. "argument" \notin AskedLater
    BY <1>1, AskedLaterIs DEF Engines, Nested
  <2>2. QED
    BY <1>5, <2>1
<1>12. p \in Parent(o, Listed(stable))
    BY <1>4, <1>7 DEF Parent
<1>13. QED
    BY <1>9, <1>10, <1>11, <1>12 DEF Meant

(* What metadata is about is reported, but for what is known to be lost:   *)
(* the schema of what is in it is named by an object that is meant too.    *)
LEMMA ScopeIsReportable ==
    ASSUME Connected, NEW o \in stable, InScope(o), ~KnownLoss(o)
    PROVE  o \in Reportable
<1>1. Engine \in Engines /\ o.kind \in Described /\ OfUsers(o.schema)
    BY ObjectIs DEF InScope
<1>2. o \in Meant(stable)
  <2>1. CASE o.kind \in PartKinds
    BY <2>1, PartIsMeant
  <2>2. CASE o.kind \notin PartKinds
    BY <1>1, <2>2, TopIsMeant DEF Gated, KnownLoss
  <2>3. QED
    BY <2>1, <2>2
<1>3. ASSUME Engine \in {"postgresql", "oracle", "sqlserver"}, o.kind # "job"
      PROVE  \E n \in Meant(stable) : n.kind \in Naming /\ n.schema = o.schema
  <2>1. PICK n \in stable : n.kind \in Naming /\ n.schema = o.schema
    BY <1>3 DEF KnownLoss
  <2>2. n.kind \in Described /\ n.kind \notin PartKinds /\ ~Gated(n)
    BY <1>3, <2>1 DEF Naming, Described, PartKinds, Gated
  <2>3. n \in Meant(stable)
    BY <1>1, <2>1, <2>2, TopIsMeant
  <2>4. QED
    BY <2>1, <2>3
<1>4. PICK M : M = Meant(stable)
    OBVIOUS
<1>5. o \in Grouped(M)
  <2>1. CASE Engine \in {"postgresql", "oracle", "sqlserver"}
    <3>1. o \in GroupedBy(Naming, M)
      BY <1>2, <1>3, <1>4, <2>1 DEF GroupedBy
    <3>2. Grouped(M) = GroupedBy(Naming, M)
      BY <2>1, GroupedIs DEF Naming, PostgresNames, OracleNames, SqlServerNames
    <3>3. QED
      BY <3>1, <3>2
  <2>2. CASE Engine \notin {"postgresql", "oracle", "sqlserver"}
    BY <1>2, <1>4, <2>2, GroupedIs
  <2>3. QED
    BY <2>1, <2>2
<1>6. QED
    BY <1>4, <1>5 DEF Reportable
-----------------------------------------------------------------------------
(* The invariant holds throughout, on every engine and whatever the        *)
(* database's users do meanwhile.                                          *)
THEOREM DriversInvariant == Spec => []DriversInv
<1>1. Init => DriversInv
    BY InitInv
<1>2. DriversInv /\ [Next]_vars => DriversInv'
    BY DriversInvStep
<1>3. QED
    BY <1>1, <1>2, PTL DEF Spec

(* Drivers are type correct; the sample of Redis keys never has more than  *)
(* was asked for.                                                          *)
THEOREM DriversTypeCorrect == Spec => []TypeOK
<1>1. DriversInv => TypeOK
    BY DEF DriversInv
<1>2. QED
    BY <1>1, DriversInvariant, PTL

(* Rows that tell of what was there are what two of the properties ask     *)
(* for.                                                                    *)
LEMMA KnownExisted ==
    ASSUME DriversInv
    PROVE  ReportedExisted /\ RequiredIsEverywhere
<1>1. \A r \in answer : \E o \in seen : (Tells(r, o) /\ r.kind # "field") \/ FieldOf(r, o)
    BY DEF DriversInv, Known
<1>2. ReportedExisted
    BY <1>1 DEF ReportedExisted, Tells, FieldOf
<1>3. RequiredIsEverywhere
    BY <1>1 DEF RequiredIsEverywhere, FieldOf, Everywhere
<1>4. QED
    BY <1>2, <1>3

(* fetch_schema never returns an object that was not there at some moment  *)
(* of that fetch, nor files a part under another table of the same name,   *)
(* but for Oracle's indexes and triggers of another owner than their       *)
(* table's.                                                                *)
THEOREM MetadataExisted == Spec => []ReportedExisted
<1>1. DriversInv => ReportedExisted
    BY KnownExisted
<1>2. QED
    BY <1>1, DriversInvariant, PTL

(* infer_document_schema calls a field required only if every document of  *)
(* its collection has it, some document has it more than once, or the      *)
(* collection has more documents than are sampled.                         *)
THEOREM RequiredFieldsHold == Spec => []RequiredIsEverywhere
<1>1. DriversInv => RequiredIsEverywhere
    BY KnownExisted
<1>2. QED
    BY <1>1, DriversInvariant, PTL

(* The users' objects that are in the database throughout a fetch that     *)
(* succeeds are in the metadata with all their columns, on every engine    *)
(* and release, but for what KnownLoss names.                              *)
THEOREM NothingStableIsLost == Spec => []StableIsReported
<1>1. ASSUME DriversInv PROVE StableIsReported
  <2>1. SUFFICES ASSUME status = "done", NEW o \in stable, InScope(o), ~KnownLoss(o)
                 PROVE  \E r \in answer :
                           /\ Same(r, o)
                           /\ (o.kind = "fk" \/ (o.kind = "index" /\ Engine # "oracle")) =>
                                 ToSet(o.keys) \subseteq r.keys
    BY DEF StableIsReported
  <2>2. Connected
    BY <1>1, <2>1 DEF DriversInv, TypeOK, Connected
  <2>3. o \in Reportable
    BY <2>1, <2>2, ScopeIsReportable
  <2>4. Answered(o, answer) \/ Excused(o)
    BY <1>1, <2>1, <2>3 DEF DriversInv, Complete
  <2>5. ~Excused(o)
    BY <2>1 DEF KnownLoss, Excused
  <2>6. QED
    BY <2>4, <2>5 DEF Answered, WithColumns
<1>2. QED
    BY <1>1, DriversInvariant, PTL
=============================================================================
