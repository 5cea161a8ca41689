---------------------------- MODULE StartupProofs ----------------------------
(* Theorems about the user table of Users and about the state Startup      *)
(* begins with, for tables, names and command lines of any size.           *)
EXTENDS Startup, DataProofs, FiniteSetTheorems

-----------------------------------------------------------------------------
(* The user table.                                                         *)

NameField == {f \in Seq(Nat) : valid_field(f, USERS_MAX_NAME)}
PassField == {f \in Seq(Nat) : valid_field(f, USERS_MAX_PASS)}

\* A slot in use holds a name and a password, and no other slot has the name.
IsTable(d) ==
  /\ d \in [Slot -> [used : BOOLEAN, name : Seq(Nat), pass : Seq(Nat)]]
  /\ \A i \in Slot : d[i].used => d[i].name \in NameField /\ d[i].pass \in PassField
  /\ \A i, j \in Slot : d[i].used /\ d[j].used /\ d[i].name = d[j].name => i = j

LEMMA EmptyIsTable == IsTable(users_init)
<1>1. <<>> \in Seq(Nat)
  OBVIOUS
<1> QED
  BY <1>1 DEF IsTable, users_init, Unused

(* find looks for the first slot with a name, and there is no other.       *)
LEMMA FindSlot ==
  ASSUME NEW d, IsTable(d), NEW n
  PROVE  /\ find(d, n) = {i \in Slot : d[i].used /\ d[i].name = n}
         /\ \A i \in Used(d) : d[i].name = n => find(d, n) = {i}
<1>1. Slot \subseteq Nat /\ \A i \in Slot : \A j \in 1 .. i - 1 : j \in Slot /\ j # i
  BY UsersAssumption DEF Slot
<1>2. find(d, n) = {i \in Slot : d[i].used /\ d[i].name = n}
  BY <1>1 DEF find, IsTable
<1> QED
  BY <1>2 DEF Used, IsTable

(* The loop over the slots finds a free one unless all are in use.         *)
LEMMA FreeSlot ==
  ASSUME NEW d, IsTable(d)
  PROVE  /\ FirstUnused(d) \subseteq {i \in Slot : ~d[i].used}
         /\ Used(d) # Slot => FirstUnused(d) # {}
<1> DEFINE Free == {i \in Slot : ~d[i].used}
<1>1. FirstUnused(d) \subseteq Free
  BY DEF FirstUnused
<1>2. ASSUME Used(d) # Slot PROVE FirstUnused(d) # {}
  <2>1. Free # {} /\ Free \in SUBSET Nat
    BY <1>2, UsersAssumption DEF Used, Slot
  <2>2. PICK m \in Free : \A x \in Free : m <= x
    BY <2>1, LeastExists
  <2>3. m \in Nat /\ \A j \in 1 .. m - 1 : j \in Slot /\ ~(m <= j)
    BY <2>1, <2>2, UsersAssumption DEF Slot
  <2>4. \A j \in 1 .. m - 1 : d[j].used
    BY <2>2, <2>3
  <2> QED
    BY <2>2, <2>4 DEF FirstUnused
<1> QED
  BY <1>1, <1>2

(* The map a table stands for has the names in use with their passwords.   *)
LEMMA MapOfTable ==
  ASSUME NEW d, IsTable(d)
  PROVE  /\ DOMAIN AsMap(d) = {d[i].name : i \in Used(d)}
         /\ \A i \in Used(d) : AsMap(d)[d[i].name] = d[i].pass
         /\ AsMap(d) = [n \in DOMAIN AsMap(d) |-> AsMap(d)[n]]
         /\ \A n : n \in DOMAIN AsMap(d) <=> find(d, n) # {}
<1>1. DOMAIN AsMap(d) = {d[i].name : i \in Used(d)}
  BY DEF AsMap
<1>2. ASSUME NEW i \in Used(d) PROVE AsMap(d)[d[i].name] = d[i].pass
  <2>1. find(d, d[i].name) = {i}
    BY FindSlot
  <2> QED
    BY <2>1 DEF AsMap
<1>3. AsMap(d) = [n \in DOMAIN AsMap(d) |-> AsMap(d)[n]]
  BY DEF AsMap
<1>4. \A n : n \in DOMAIN AsMap(d) <=> find(d, n) # {}
  BY <1>1, FindSlot DEF Used
<1> QED
  BY <1>1, <1>2, <1>3, <1>4

(* There are as many names as slots in use.                                *)
LEMMA NamesAreSlots ==
  ASSUME NEW d, IsTable(d)
  PROVE  /\ IsFiniteSet(Used(d)) /\ IsFiniteSet(DOMAIN AsMap(d))
         /\ Cardinality(DOMAIN AsMap(d)) = Cardinality(Used(d))
         /\ Cardinality(DOMAIN AsMap(d)) \in 0 .. USERS_MAX
         /\ Cardinality(DOMAIN AsMap(d)) = USERS_MAX <=> Used(d) = Slot
<1> DEFINE N == DOMAIN AsMap(d)
           f == [i \in Used(d) |-> d[i].name]
<1>1. IsFiniteSet(Slot) /\ Cardinality(Slot) = USERS_MAX
  BY FS_Interval, UsersAssumption DEF Slot
<1>2. /\ IsFiniteSet(Used(d)) /\ Cardinality(Used(d)) <= USERS_MAX
      /\ Cardinality(Used(d)) = USERS_MAX => Used(d) = Slot
  <2>1. Used(d) \in SUBSET Slot
    BY DEF Used
  <2> QED
    BY <1>1, <2>1, FS_Subset
<1>3. N = {d[i].name : i \in Used(d)}
  BY MapOfTable
<1>4. f \in Injection(Used(d), N)
  BY <1>3 DEF Injection, IsInjective, Used, IsTable
<1>5. f \in Surjection(Used(d), N)
  BY <1>3 DEF Surjection
<1>6. IsFiniteSet(N) /\ Cardinality(N) = Cardinality(Used(d))
  BY <1>2, <1>4, <1>5, FS_Surjection
<1>7. Cardinality(Used(d)) \in 0 .. USERS_MAX
  BY <1>2, FS_CardinalityType, UsersAssumption
<1>8. Used(d) = Slot => Cardinality(Used(d)) = USERS_MAX
  BY <1>1
<1> HIDE DEF N, f
<1> QED
  BY <1>2, <1>6, <1>7, <1>8 DEF N

\* The map m with the password p for n, and the map without n.
Added(m, n, p) == [k \in DOMAIN m \cup {n} |-> IF k = n THEN p ELSE m[k]]
Deleted(m, n) == [k \in DOMAIN m \ {n} |-> m[k]]

(* Two tables stand for the same map if they have the same names with the  *)
(* same passwords.                                                         *)
LEMMA SameMap ==
  ASSUME NEW d, IsTable(d), NEW m, m = [n \in DOMAIN m |-> m[n]],
         {d[i].name : i \in Used(d)} = DOMAIN m,
         \A i \in Used(d) : m[d[i].name] = d[i].pass
  PROVE  AsMap(d) = m
<1>1. DOMAIN AsMap(d) = DOMAIN m
  BY MapOfTable
<1>2. ASSUME NEW n \in DOMAIN m PROVE AsMap(d)[n] = m[n]
  <2>1. PICK i \in Used(d) : n = d[i].name
    OBVIOUS
  <2> QED
    BY <2>1, MapOfTable
<1>3. AsMap(d) = [n \in DOMAIN AsMap(d) |-> AsMap(d)[n]]
  BY MapOfTable
<1> QED
  BY <1>1, <1>2, <1>3

\* Slot i of d gets the name n with the password p.
Filled(d, i, n, p) == [d EXCEPT ![i] = [used |-> TRUE, name |-> n, pass |-> p]]

LEMMA FillSlot ==
  ASSUME NEW d, IsTable(d), NEW n \in NameField, NEW p \in PassField,
         NEW i \in Slot, \A j \in Used(d) : d[j].name = n <=> j = i /\ d[i].used,
         d[i].used => d[i].name = n
  PROVE  /\ IsTable(Filled(d, i, n, p))
         /\ AsMap(Filled(d, i, n, p)) = Added(AsMap(d), n, p)
<1> DEFINE e == Filled(d, i, n, p)
           m == Added(AsMap(d), n, p)
<1>1. n \in Seq(Nat) /\ p \in Seq(Nat)
  BY DEF NameField, PassField
<1>2. /\ e[i] = [used |-> TRUE, name |-> n, pass |-> p]
      /\ \A j \in Slot : j # i => e[j] = d[j]
      /\ e \in [Slot -> [used : BOOLEAN, name : Seq(Nat), pass : Seq(Nat)]]
  BY <1>1 DEF IsTable, Filled
<1>3. \A j \in Slot : e[j].used => \/ j = i /\ e[j].name = n /\ e[j].pass = p
                                   \/ j # i /\ d[j].used /\ e[j] = d[j] /\ d[j].name # n
  BY <1>2 DEF Used
<1>4. IsTable(e)
  BY <1>2, <1>3, ZenonT(40) DEF IsTable
<1>5. Used(e) = Used(d) \cup {i}
  BY <1>2 DEF Used
<1>6. DOMAIN AsMap(d) = {d[j].name : j \in Used(d)}
  BY MapOfTable
<1>7. {e[j].name : j \in Used(e)} = DOMAIN AsMap(d) \cup {n}
  <2> HIDE DEF e
  <2>1. e[i].name = n
    BY <1>2
  <2>2. ASSUME NEW j \in Used(d) PROVE j \in Slot /\ e[j].name = d[j].name
    <3>1. j \in Slot /\ d[j].used
      BY DEF Used
    <3> QED
      BY <1>2, <2>1, <3>1
  <2>3. \A x : x \in DOMAIN AsMap(d) \cup {n} =>
          x \in {e[j].name : j \in Used(d) \cup {i}}
    BY <1>6, <2>1, <2>2
  <2>4. \A j \in Used(d) \cup {i} : e[j].name \in DOMAIN AsMap(d) \cup {n}
    BY <1>6, <2>1, <2>2
  <2> QED
    BY <1>5, <2>3, <2>4
<1>8. \A j \in Used(e) : m[e[j].name] = e[j].pass
  <2> SUFFICES ASSUME NEW j \in Used(e) PROVE m[e[j].name] = e[j].pass
    OBVIOUS
  <2>1. CASE j = i
    BY <1>2, <2>1 DEF Added
  <2>2. CASE j # i
    <3>1. j \in Used(d) /\ e[j] = d[j] /\ d[j].name # n
      BY <1>3, <2>2 DEF Used
    <3>2. AsMap(d)[d[j].name] = d[j].pass /\ d[j].name \in DOMAIN AsMap(d)
      BY <3>1, <1>6, MapOfTable
    <3> QED
      BY <3>1, <3>2 DEF Added
  <2> QED
    BY <2>1, <2>2
<1>9. DOMAIN m = DOMAIN AsMap(d) \cup {n} /\ m = [k \in DOMAIN m |-> m[k]]
  BY DEF Added
<1> HIDE DEF e, m
<1>10. AsMap(e) = m
  BY <1>4, <1>7, <1>8, <1>9, SameMap
<1> QED
  BY <1>4, <1>10 DEF e, m

(* users_add puts the name with its password, in the slot of the name or   *)
(* in a free one, and touches no other name; it refuses a new name when    *)
(* the table is full of names and a field of the wrong length, and changes *)
(* nothing then.                                                           *)
LEMMA UsersAdd ==
  ASSUME NEW d, IsTable(d), NEW n \in Seq(Nat), NEW p \in Seq(Nat)
  PROVE  LET u == users_add(d, n, p)
             m == AsMap(d)
         IN  /\ IsTable(u.db)
             /\ \/ /\ u.result = "OK" /\ n \in NameField /\ p \in PassField
                   /\ n \in DOMAIN m \/ Cardinality(DOMAIN m) < USERS_MAX
                   /\ AsMap(u.db) = Added(m, n, p)
                \/ /\ u.result = "FULL" /\ u.db = d
                   /\ n \in NameField /\ p \in PassField
                   /\ n \notin DOMAIN m /\ Cardinality(DOMAIN m) = USERS_MAX
                \/ /\ u.result = "INVALID" /\ u.db = d
                   /\ ~(n \in NameField /\ p \in PassField)
<1> DEFINE u == users_add(d, n, p)
           m == AsMap(d)
           known == find(d, n)
           slots == IF known # {} THEN known ELSE FirstUnused(d)
<1>1. /\ n \in NameField <=> valid_field(n, USERS_MAX_NAME)
      /\ p \in PassField <=> valid_field(p, USERS_MAX_PASS)
  BY DEF NameField, PassField
<1>2. known = {i \in Slot : d[i].used /\ d[i].name = n}
      /\ \A i \in Used(d) : d[i].name = n => known = {i}
  BY FindSlot
<1>3. n \in DOMAIN m <=> known # {}
  BY MapOfTable
<1>4. CASE ~(n \in NameField /\ p \in PassField)
  <2>1. u = Result("INVALID", d)
    BY <1>1, <1>4 DEF users_add
  <2> QED
    BY <1>4, <2>1 DEF Result
<1>5. CASE n \in NameField /\ p \in PassField /\ slots = {}
  <2>1. u = Result("FULL", d)
    BY <1>1, <1>5 DEF users_add
  <2>2. known = {} /\ Used(d) = Slot
    BY <1>5, FreeSlot
  <2>3. Cardinality(DOMAIN m) = USERS_MAX
    BY <2>2, NamesAreSlots
  <2> QED
    BY <1>3, <1>5, <2>1, <2>2, <2>3 DEF Result
<1>6. CASE n \in NameField /\ p \in PassField /\ slots # {}
  <2> DEFINE i == CHOOSE i \in slots : TRUE
  <2>1. u = Result("OK", Filled(d, i, n, p))
    BY <1>1, <1>6 DEF users_add, Filled
  <2>2. i \in slots
    BY <1>6
  <2>3. n \in DOMAIN m \/ Cardinality(DOMAIN m) < USERS_MAX
    <3>1. CASE known # {}
      BY <1>3, <3>1
    <3>2. CASE known = {}
      <4>1. Used(d) # Slot
        BY <2>2, <3>2, FreeSlot DEF Used
      <4>2. Cardinality(DOMAIN m) \in 0 .. USERS_MAX /\ Cardinality(DOMAIN m) # USERS_MAX
        BY <4>1, NamesAreSlots
      <4> QED
        BY <4>2, UsersAssumption
    <3> QED
      BY <3>1, <3>2
  <2>4. /\ i \in Slot /\ (d[i].used => d[i].name = n)
        /\ \A j \in Used(d) : d[j].name = n <=> j = i /\ d[i].used
    <3>1. CASE known # {}
      BY <1>2, <2>2, <3>1 DEF Used
    <3>2. CASE known = {}
      BY <1>2, <2>2, <3>2, FreeSlot DEF Used
    <3> QED
      BY <3>1, <3>2
  <2> HIDE DEF i
  <2>5. /\ IsTable(Filled(d, i, n, p))
        /\ AsMap(Filled(d, i, n, p)) = Added(m, n, p)
    BY <1>6, <2>4, FillSlot
  <2> QED
    BY <1>6, <2>1, <2>3, <2>5 DEF Result
<1> QED
  BY <1>4, <1>5, <1>6

(* users_del takes the name out and touches no other; it refuses exactly   *)
(* the names that are not there.                                           *)
LEMMA UsersDel ==
  ASSUME NEW d, IsTable(d), NEW n
  PROVE  LET u == users_del(d, n)
             m == AsMap(d)
         IN  /\ IsTable(u.db)
             /\ AsMap(u.db) = Deleted(m, n)
             /\ \/ u.result = "OK" /\ n \in DOMAIN m
                \/ u.result = "NOT_FOUND" /\ n \notin DOMAIN m /\ u.db = d
<1> DEFINE u == users_del(d, n)
           e == [i \in Slot |-> IF i \in find(d, n) THEN Unused ELSE d[i]]
           m == AsMap(d)
<1>1. n \in DOMAIN m <=> find(d, n) # {}
  BY MapOfTable
<1>2. m = [k \in DOMAIN m |-> m[k]]
  BY MapOfTable
<1>3. CASE find(d, n) = {}
  <2>1. u = Result("NOT_FOUND", d)
    BY <1>3 DEF users_del
  <2>2. Deleted(m, n) = m
    BY <1>1, <1>2, <1>3 DEF Deleted
  <2> QED
    BY <1>1, <1>3, <2>1, <2>2 DEF Result
<1>4. CASE find(d, n) # {}
  <2>1. u = Result("OK", e)
    BY <1>4 DEF users_del
  <2>2. find(d, n) = {i \in Slot : d[i].used /\ d[i].name = n}
    BY FindSlot
  <2>3. <<>> \in Seq(Nat)
    OBVIOUS
  <2>4. e \in [Slot -> [used : BOOLEAN, name : Seq(Nat), pass : Seq(Nat)]]
    BY <2>3 DEF IsTable, Unused
  <2>5. \A i \in Slot : e[i].used => d[i].used /\ e[i] = d[i] /\ d[i].name # n
    BY <2>2 DEF Unused
  <2>6. IsTable(e)
    BY <2>4, <2>5 DEF IsTable
  <2>7. \A i \in Slot : d[i].used /\ d[i].name # n => e[i] = d[i]
    BY <2>2
  <2>8. DOMAIN m = {d[i].name : i \in Used(d)}
    BY MapOfTable
  <2> HIDE DEF e
  <2>9. Used(e) = {i \in Used(d) : d[i].name # n}
    BY <2>5, <2>7 DEF Used
  <2>10. \A i \in Used(e) : /\ i \in Used(d) /\ e[i] = d[i]
                            /\ d[i].name # n /\ d[i].name \in DOMAIN m
    BY <2>5, <2>8, <2>9 DEF Used
  <2>11. {e[i].name : i \in Used(e)} = DOMAIN m \ {n}
    <3>1. \A x \in DOMAIN m \ {n} : \E i \in Used(e) : e[i].name = x
      BY <2>8, <2>9, <2>10
    <3> QED
      BY <2>10, <3>1
  <2>12. \A i \in Used(e) : Deleted(m, n)[e[i].name] = e[i].pass
    <3>1. \A i \in Used(d) : m[d[i].name] = d[i].pass
      BY MapOfTable
    <3> HIDE DEF m
    <3> QED
      BY <2>10, <3>1 DEF Deleted
  <2>13. /\ DOMAIN Deleted(m, n) = DOMAIN m \ {n}
         /\ Deleted(m, n) = [k \in DOMAIN Deleted(m, n) |-> Deleted(m, n)[k]]
    BY DEF Deleted
  <2> DEFINE w == Deleted(m, n)
  <2> HIDE DEF w, m
  <2>14. AsMap(e) = w
    BY <2>6, <2>11, <2>12, <2>13, SameMap DEF w
  <2>15. IsTable(u.db) /\ AsMap(u.db) = w /\ u.result = "OK"
    BY <2>1, <2>6, <2>14 DEF Result
  <2> QED
    BY <1>1, <1>4, <2>15 DEF w, m
<1> QED
  BY <1>3, <1>4

(* users_check compares the password with the one the map has for a name.  *)
LEMMA UsersCheck ==
  ASSUME NEW d, IsTable(d), NEW n, NEW p
  PROVE  users_check(d, n, p) <=> n \in DOMAIN AsMap(d) /\ AsMap(d)[n] = p
<1>1. find(d, n) = {i \in Slot : d[i].used /\ d[i].name = n}
  BY FindSlot
<1>2. n \in DOMAIN AsMap(d) <=> find(d, n) # {}
  BY MapOfTable
<1>3. \A i \in find(d, n) : AsMap(d)[n] = d[i].pass
  <2>1. \A i \in Used(d) : AsMap(d)[d[i].name] = d[i].pass
    BY MapOfTable
  <2> QED
    BY <1>1, <2>1 DEF Used
<1> QED
  BY <1>2, <1>3 DEF users_check

(* A table stands for a map from names to passwords with as many entries   *)
(* as the table has room for.                                              *)
LEMMA MapIsDirectory ==
  ASSUME NEW d, IsTable(d)
  PROVE  /\ DOMAIN AsMap(d) \subseteq NameField
         /\ Cardinality(DOMAIN AsMap(d)) <= USERS_MAX
         /\ \A n \in DOMAIN AsMap(d) : AsMap(d)[n] \in PassField
<1>1. /\ DOMAIN AsMap(d) = {d[i].name : i \in Used(d)}
      /\ \A i \in Used(d) : AsMap(d)[d[i].name] = d[i].pass
  BY MapOfTable
<1>2. \A i \in Used(d) : d[i].name \in NameField /\ d[i].pass \in PassField
  BY DEF IsTable, Used
<1>3. Cardinality(DOMAIN AsMap(d)) <= USERS_MAX
  BY NamesAreSlots
<1> QED
  BY <1>1, <1>2, <1>3

-----------------------------------------------------------------------------
(* How the daemon starts.                                                  *)

User == [name : NameField, pass : PassField]

\* The table after the first i of the users us.
AddedUpTo(us, t) ==
  t = [i \in 0 .. Len(us) |->
         IF i = 0 THEN users_init ELSE users_add(t[i - 1], us[i].name, us[i].pass).db]

LEMMA StartUsersRecursion ==
  ASSUME NEW args, args.users \in Seq(User)
  PROVE  \E t : AddedUpTo(args.users, t) /\ StartUsers(args) = t[Len(args.users)]
<1> DEFINE us == args.users
           n == Len(us)
           Tables == {d \in [Slot -> [used : BOOLEAN, name : Seq(Nat), pass : Seq(Nat)]] :
                   IsTable(d)}
           g == [i \in 1 .. n |-> [d \in Tables |-> users_add(d, us[i].name, us[i].pass).db]]
           db[i \in 0 .. Len(args.users)] ==
             IF i = 0 THEN users_init
             ELSE users_add(db[i - 1], args.users[i].name, args.users[i].pass).db
<1>1. n \in Nat /\ \A i \in 1 .. n : us[i].name \in Seq(Nat) /\ us[i].pass \in Seq(Nat)
  <2>1. \A i \in 1 .. n : us[i] \in User
    OBVIOUS
  <2>2. n \in Nat
    OBVIOUS
  <2> QED
    BY <2>1, <2>2 DEF User, NameField, PassField
<1>2. \A d : d \in Tables <=> IsTable(d)
  <2>1. \A d : IsTable(d) =>
          d \in [Slot -> [used : BOOLEAN, name : Seq(Nat), pass : Seq(Nat)]]
    BY DEF IsTable
  <2> QED
    BY <2>1
<1>3. users_init \in Tables
  BY <1>2, EmptyIsTable
<1> HIDE DEF Tables
<1>4. Steps(n, Tables, g)
  <2>1. ASSUME NEW i \in 1 .. n, NEW d \in Tables
        PROVE  users_add(d, us[i].name, us[i].pass).db \in Tables
    <3> HIDE DEF n, us
    <3> QED
      BY <1>1, <1>2, UsersAdd
  <2> QED
    BY <2>1 DEF Steps
<1>5. PICK t : Iterates(t, n, Tables, users_init, g)
  <2> HIDE DEF g, n, us
  <2>1. n \in Nat
    BY <1>1
  <2> QED
    BY <2>1, <1>3, <1>4, RecursionExists
<1>6. t = [i \in 0 .. n |->
             IF i = 0 THEN users_init ELSE users_add(t[i - 1], us[i].name, us[i].pass).db]
  <2>1. ASSUME NEW i \in 1 .. n
        PROVE  t[i] = users_add(t[i - 1], us[i].name, us[i].pass).db
    <3>1. t[i - 1] \in Tables
      <4> HIDE DEF n
      <4> QED
        BY <1>1, <1>5 DEF Iterates
    <3> QED
      BY <1>5, <3>1 DEF Iterates
  <2> HIDE DEF n, us
  <2> QED
    BY <1>1, <1>5, <2>1 DEF Iterates
<1>7. db = [i \in 0 .. Len(args.users) |->
              IF i = 0 THEN users_init
              ELSE users_add(db[i - 1], args.users[i].name, args.users[i].pass).db]
  BY <1>6
<1>8. StartUsers(args) = db[Len(args.users)]
  BY DEF StartUsers
<1> HIDE DEF db
<1> QED
  BY <1>7, <1>8 DEF AddedUpTo

(* The users of the command line are added in their order: the names in    *)
(* the table are theirs, each with the password given last for it.  The    *)
(* table is never full before the last one.                                *)
LEMMA StartUsersMap ==
  ASSUME NEW args, args.users \in Seq(User), Len(args.users) <= USERS_MAX
  PROVE  LET us == args.users
             d == StartUsers(args)
         IN  /\ IsTable(d)
             /\ DOMAIN AsMap(d) = {us[i].name : i \in 1 .. Len(us)}
             /\ \A i \in 1 .. Len(us) :
                  (\A j \in i + 1 .. Len(us) : us[j].name # us[i].name)
                    => AsMap(d)[us[i].name] = us[i].pass
<1> DEFINE us == args.users
           n == Len(us)
<1>0. n \in Nat /\ n <= USERS_MAX /\ us \in Seq(User)
  OBVIOUS
<1>1. PICK t : AddedUpTo(us, t) /\ StartUsers(args) = t[n]
  BY StartUsersRecursion
<1> HIDE DEF us, n
<1> DEFINE names(i) == {us[j].name : j \in 1 .. i}
           Good(i) == /\ IsTable(t[i])
                      /\ Cardinality(DOMAIN AsMap(t[i])) <= i
                      /\ DOMAIN AsMap(t[i]) = names(i)
                      /\ \A j \in 1 .. i : (\A k \in j + 1 .. i : us[k].name # us[j].name)
                           => AsMap(t[i])[us[j].name] = us[j].pass
           P == {i \in 0 .. n : Good(i)}
<1>2. /\ t[0] = users_init
      /\ \A i \in 1 .. n : t[i] = users_add(t[i - 1], us[i].name, us[i].pass).db
  BY <1>0, <1>1 DEF AddedUpTo, n
<1>3. 0 \in P
  <2>1. Used(users_init) = {}
    BY DEF Used, users_init, Unused
  <2>2. DOMAIN AsMap(users_init) = {}
    BY <2>1, EmptyIsTable, MapOfTable
  <2>3. Cardinality(DOMAIN AsMap(users_init)) <= 0
    BY <2>2, FS_EmptySet
  <2>4. names(0) = {} /\ \A j : j \notin 1 .. 0
    OBVIOUS
  <2>5. IsTable(t[0]) /\ AsMap(t[0]) = AsMap(users_init) /\ 0 \in 0 .. n
    BY <1>0, <1>2, EmptyIsTable
  <2> HIDE DEF names
  <2>6. Good(0)
    BY <2>2, <2>3, <2>4, <2>5
  <2> QED
    BY <2>5, <2>6
<1>4. ASSUME NEW i \in 0 .. n - 1, i \in P PROVE i + 1 \in P
  <2> DEFINE u == users_add(t[i], us[i + 1].name, us[i + 1].pass)
             m == AsMap(t[i])
             nm == us[i + 1].name
             pw == us[i + 1].pass
  <2>1. i \in Nat /\ i + 1 \in 1 .. n /\ i + 1 \in 0 .. n
    BY <1>0
  <2>2. us[i + 1] \in User
    BY <1>0, <2>1 DEF n
  <2>3. nm \in NameField /\ pw \in PassField /\ nm \in Seq(Nat) /\ pw \in Seq(Nat)
    BY <2>2 DEF User, NameField, PassField
  <2>4. t[i + 1] = u.db
    BY <1>2, <2>1
  <2>5. Good(i)
    BY <1>4
  <2> HIDE DEF names
  <2>6. IsTable(t[i]) /\ Cardinality(DOMAIN m) <= i /\ DOMAIN m = names(i)
    BY <2>5
  <2>7. IsFiniteSet(DOMAIN m) /\ Cardinality(DOMAIN m) \in 0 .. USERS_MAX
    BY <2>6, NamesAreSlots
  <2>8. Cardinality(DOMAIN m) < USERS_MAX
    BY <1>0, <2>1, <2>6, <2>7, UsersAssumption
  <2>9. IsTable(u.db) /\ AsMap(u.db) = Added(m, nm, pw)
    <3> HIDE DEF nm, pw
    <3>1. \/ AsMap(users_add(t[i], nm, pw).db) = Added(AsMap(t[i]), nm, pw)
          \/ Cardinality(DOMAIN AsMap(t[i])) = USERS_MAX
          \/ ~(nm \in NameField /\ pw \in PassField)
      BY <2>3, <2>6, UsersAdd
    <3>2. IsTable(users_add(t[i], nm, pw).db)
      BY <2>3, <2>6, UsersAdd
    <3> QED
      BY <2>3, <2>7, <2>8, <3>1, <3>2, UsersAssumption DEF nm, pw
  <2> HIDE DEF m, u, nm, pw
  <2>10. DOMAIN Added(m, nm, pw) = DOMAIN m \cup {nm}
    BY DEF Added
  <2>11. Cardinality(DOMAIN Added(m, nm, pw)) <= i + 1
    <3>1. Cardinality(DOMAIN m \cup {nm}) \in {Cardinality(DOMAIN m), Cardinality(DOMAIN m) + 1}
      BY <2>7, FS_AddElement
    <3> QED
      BY <2>1, <2>6, <2>7, <2>10, <3>1
  <2>12. names(i + 1) = names(i) \cup {nm}
    BY <2>1 DEF names, nm
  <2>13. ASSUME NEW j \in 1 .. i + 1, \A k \in j + 1 .. i + 1 : us[k].name # us[j].name
         PROVE  Added(m, nm, pw)[us[j].name] = us[j].pass
    <3>1. CASE j = i + 1
      <4>1. us[j].name = nm /\ us[j].pass = pw
        BY <3>1 DEF nm, pw
      <4> QED
        BY <4>1 DEF Added
    <3>2. CASE j # i + 1
      <4>1. j \in 1 .. i /\ i + 1 \in j + 1 .. i + 1 /\ \A k \in j + 1 .. i : k \in j + 1 .. i + 1
        BY <2>1, <3>2
      <4>2. us[j].name # nm
        BY <2>13, <4>1 DEF nm
      <4>3. m[us[j].name] = us[j].pass
        BY <2>5, <2>13, <4>1 DEF m
      <4>4. us[j].name \in DOMAIN m
        BY <2>6, <4>1 DEF names
      <4> QED
        BY <4>2, <4>3, <4>4 DEF Added
    <3> QED
      BY <3>1, <3>2
  <2>14. AsMap(t[i + 1]) = Added(m, nm, pw) /\ IsTable(t[i + 1])
    BY <2>4, <2>9
  <2>15. Good(i + 1)
    BY <2>6, <2>10, <2>11, <2>12, <2>13, <2>14
  <2> HIDE DEF Good
  <2> QED
    BY <2>1, <2>15
<1> HIDE DEF P, Good
<1>5. \A i \in 0 .. n : i \in P
  BY <1>0, <1>3, <1>4, Induction
<1>6. Good(n)
  BY <1>0, <1>5 DEF P
<1> QED
  BY <1>1, <1>6 DEF Good, us, n

\* What parsing the command line may give.
GoodArgs ==
  {a \in [ok : BOOLEAN, users : Seq(User), require_auth : BOOLEAN,
          admin : [name : Seq(Nat), pass : Seq(Nat)]] : Len(a.users) <= USERS_MAX}

LEMMA SplitFields ==
  ASSUME NEW arg \in Seq(Nat), NEW umax, NEW pmax, umax \in Nat, pmax \in Nat,
         NEW u \in split_userpass(arg, umax, pmax)
  PROVE  /\ u \in [name : Seq(Nat), pass : Seq(Nat)]
         /\ valid_field(u.name, umax) /\ valid_field(u.pass, pmax)
<1>1. PICK colon \in 2 .. Len(arg) - 1 :
        /\ colon - 1 <= umax /\ Len(arg) - colon <= pmax
        /\ u = [name |-> SubSeq(arg, 1, colon - 1), pass |-> SubSeq(arg, colon + 1, Len(arg))]
  BY DEF split_userpass
<1>2. /\ colon \in Int /\ colon >= 2 /\ colon <= Len(arg) - 1 /\ Len(arg) \in Nat
      /\ \A i \in 1 .. Len(arg) : arg[i] \in Nat
  BY <1>1, SMTT(30)
<1>3. /\ SubSeq(arg, 1, colon - 1) \in Seq(Nat)
      /\ Len(SubSeq(arg, 1, colon - 1)) = (colon - 1) - 1 + 1
  BY <1>2, SubSeqProperties, SMTT(30)
<1>4. /\ SubSeq(arg, colon + 1, Len(arg)) \in Seq(Nat)
      /\ Len(SubSeq(arg, colon + 1, Len(arg))) = Len(arg) - (colon + 1) + 1
  BY <1>2, SubSeqProperties
<1> QED
  BY <1>1, <1>2, <1>3, <1>4 DEF valid_field

LEMMA TakeOptionGood ==
  ASSUME NEW a \in GoodArgs, NEW opt \in Option
  PROVE  TakeOption(a, opt) \in GoodArgs
<1> DEFINE user == split_userpass(opt.arg, USERS_MAX_NAME, USERS_MAX_PASS)
           admin == split_userpass(opt.arg, CONFIG_ADMIN_MAX, CONFIG_ADMIN_MAX)
<1>0. opt.arg \in Seq(Nat) /\ opt.letter \in {"N", "u", "a"}
  BY DEF Option
<1>1. user \subseteq User
  <2>1. ASSUME NEW u \in user PROVE u \in User
    <3>1. /\ u \in [name : Seq(Nat), pass : Seq(Nat)]
          /\ valid_field(u.name, USERS_MAX_NAME) /\ valid_field(u.pass, USERS_MAX_PASS)
      BY <1>0, SplitFields, UsersAssumption
    <3> QED
      BY <3>1 DEF User, NameField, PassField
  <2> QED
    BY <2>1
<1>2. admin \subseteq [name : Seq(Nat), pass : Seq(Nat)]
  BY <1>0, SplitFields, StartupAssumption
<1>3. /\ a.ok \in BOOLEAN /\ a.require_auth \in BOOLEAN /\ a.users \in Seq(User)
      /\ Len(a.users) \in Nat /\ Len(a.users) <= USERS_MAX
      /\ a.admin \in [name : Seq(Nat), pass : Seq(Nat)]
      /\ a \in [ok : BOOLEAN, users : Seq(User), require_auth : BOOLEAN,
                admin : [name : Seq(Nat), pass : Seq(Nat)]]
  BY DEF GoodArgs
<1> HIDE DEF user, admin
<1>4. CASE opt.letter = "N"
  BY <1>3, <1>4 DEF TakeOption, GoodArgs
<1>5. CASE opt.letter = "u"
  <2>1. CASE Len(a.users) >= USERS_MAX \/ user = {}
    <3>1. TakeOption(a, opt) = [a EXCEPT !.ok = FALSE]
      BY <1>5, <2>1 DEF TakeOption, user
    <3> QED
      BY <1>3, <3>1 DEF GoodArgs
  <2>2. CASE ~(Len(a.users) >= USERS_MAX \/ user = {})
    <3> DEFINE u == CHOOSE u \in user : TRUE
               us == Append(a.users, u)
    <3>1. TakeOption(a, opt) = [a EXCEPT !.users = us]
      BY <1>5, <2>2 DEF TakeOption, user
    <3>2. u \in User
      BY <1>1, <2>2
    <3> HIDE DEF u
    <3>3. us \in Seq(User) /\ Len(us) <= USERS_MAX
      BY <1>3, <2>2, <3>2, UsersAssumption
    <3> HIDE DEF us
    <3> QED
      BY <1>3, <3>1, <3>3 DEF GoodArgs
  <2> QED
    BY <2>1, <2>2
<1>6. CASE opt.letter = "a"
  <2>1. CASE admin = {}
    <3>1. TakeOption(a, opt) = [a EXCEPT !.ok = FALSE]
      BY <1>6, <2>1 DEF TakeOption, admin
    <3> QED
      BY <1>3, <3>1 DEF GoodArgs
  <2>2. CASE admin # {}
    <3> DEFINE d == CHOOSE d \in admin : TRUE
    <3>1. TakeOption(a, opt) = [a EXCEPT !.admin = d]
      BY <1>6, <2>2 DEF TakeOption, admin
    <3>2. d \in [name : Seq(Nat), pass : Seq(Nat)]
      BY <1>2, <2>2
    <3> HIDE DEF d
    <3> QED
      BY <1>3, <3>1, <3>2 DEF GoodArgs
  <2> QED
    BY <2>1, <2>2
<1> QED
  BY <1>0, <1>4, <1>5, <1>6

(* Parsing a command line gives users with fields of a legal length, and   *)
(* no more than the table has room for.                                    *)
LEMMA ArgsParseGood ==
  ASSUME NEW options \in Seq(Option)
  PROVE  args_parse(options) \in GoodArgs
<1> DEFINE n == Len(options)
           g == [i \in 1 .. n |-> [a \in GoodArgs |->
                   IF a.ok THEN TakeOption(a, options[i]) ELSE a]]
           parsed[i \in 0 .. Len(options)] ==
             IF i = 0 THEN NoArgs
             ELSE IF parsed[i - 1].ok THEN TakeOption(parsed[i - 1], options[i])
             ELSE parsed[i - 1]
           P == {i \in 0 .. n : parsed[i] \in GoodArgs}
<1>1. n \in Nat /\ \A i \in 1 .. n : options[i] \in Option
  OBVIOUS
<1>2. NoArgs \in GoodArgs
  <2>1. <<>> \in Seq(User) /\ Len(<<>>) = 0
    OBVIOUS
  <2> QED
    BY <2>1, StartupAssumption, UsersAssumption DEF NoArgs, GoodArgs
<1> HIDE DEF n
<1>3. Steps(n, GoodArgs, g)
  BY <1>1, TakeOptionGood DEF Steps
<1>4. PICK t : Iterates(t, n, GoodArgs, NoArgs, g)
  <2> HIDE DEF g
  <2> QED
    BY <1>1, <1>2, <1>3, RecursionExists
<1>5. t = [i \in 0 .. n |->
             IF i = 0 THEN NoArgs
             ELSE IF t[i - 1].ok THEN TakeOption(t[i - 1], options[i]) ELSE t[i - 1]]
  <2>1. ASSUME NEW i \in 1 .. n
        PROVE  t[i] = IF t[i - 1].ok THEN TakeOption(t[i - 1], options[i]) ELSE t[i - 1]
    <3>1. t[i - 1] \in GoodArgs
      BY <1>1, <1>4 DEF Iterates
    <3> QED
      BY <1>4, <3>1 DEF Iterates
  <2> QED
    BY <1>1, <1>4, <2>1 DEF Iterates
<1>6. parsed = [i \in 0 .. Len(options) |->
                  IF i = 0 THEN NoArgs
                  ELSE IF parsed[i - 1].ok THEN TakeOption(parsed[i - 1], options[i])
                  ELSE parsed[i - 1]]
  BY <1>5 DEF n
<1>7. args_parse(options) = parsed[n]
  BY DEF args_parse, n
<1> HIDE DEF parsed
<1>8. 0 \in P
  BY <1>1, <1>2, <1>6 DEF n
<1>9. ASSUME NEW i \in 0 .. n - 1, i \in P PROVE i + 1 \in P
  <2>1. i + 1 \in 1 .. n /\ i + 1 \in 0 .. Len(options) /\ (i + 1) - 1 = i /\ i + 1 # 0
    BY <1>1 DEF n
  <2>2. parsed[i + 1] = IF parsed[i].ok THEN TakeOption(parsed[i], options[i + 1])
                        ELSE parsed[i]
    BY <1>6, <2>1
  <2> QED
    BY <1>1, <1>9, <2>1, <2>2, TakeOptionGood
<1> HIDE DEF P
<1>10. \A i \in 0 .. n : i \in P
  BY <1>1, <1>8, <1>9, Induction
<1> QED
  BY <1>1, <1>7, <1>10 DEF P
=============================================================================
