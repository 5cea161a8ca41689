------------------------------- MODULE Users --------------------------------
(***************************************************************************)
(* The user table of src/users.c as operators on its slots.  The names and *)
(* passwords it is given are C strings, and it keeps them as such.         *)
(***************************************************************************)
EXTENDS CStrings, FiniteSets

CONSTANTS
  USERS_MAX,       \* how many slots the table has
  USERS_MAX_NAME,  \* the longest name
  USERS_MAX_PASS   \* the longest password

ASSUME UsersAssumption ==
  /\ USERS_MAX \in Nat \ {0}
  /\ USERS_MAX_NAME \in Nat \ {0} /\ USERS_MAX_PASS \in Nat \ {0}

Slot == 1 .. USERS_MAX

Unused == [used |-> FALSE, name |-> <<>>, pass |-> <<>>]

users_init == [i \in Slot |-> Unused]

\* The slot of a name: the first one that has it, none if there is none.
find(db, name) ==
  {i \in Slot : /\ db[i].used /\ db[i].name = name
                /\ \A j \in 1 .. i - 1 : ~(db[j].used /\ db[j].name = name)}

FirstUnused(db) ==
  {i \in Slot : ~db[i].used /\ \A j \in 1 .. i - 1 : db[j].used}

valid_field(f, max) == Len(f) > 0 /\ Len(f) <= max

Result(r, db) == [result |-> r, db |-> db]

\* A known name gets a new password in its slot, a new one the first free slot.
users_add(db, name, pass) ==
  LET known == find(db, name)
      slots == IF known # {} THEN known ELSE FirstUnused(db)
  IN  IF ~valid_field(name, USERS_MAX_NAME) \/ ~valid_field(pass, USERS_MAX_PASS)
      THEN Result("INVALID", db)
      ELSE IF slots = {} THEN Result("FULL", db)
      ELSE LET i == CHOOSE i \in slots : TRUE
           IN  Result("OK", [db EXCEPT ![i] = [used |-> TRUE, name |-> name,
                                                pass |-> pass]])

users_del(db, name) ==
  IF find(db, name) = {} THEN Result("NOT_FOUND", db)
  ELSE Result("OK", [i \in Slot |-> IF i \in find(db, name) THEN Unused
                                                            ELSE db[i]])

users_check(db, name, pass) == \E i \in find(db, name) : db[i].pass = pass

Used(db) == {i \in Slot : db[i].used}

users_count(db) == Cardinality(Used(db))

\* The name of the i-th user in the order of the slots, from 0.
users_name_at(db, i) ==
  LET j == CHOOSE j \in Used(db) : Cardinality({k \in Used(db) : k < j}) = i
  IN  db[j].name

-----------------------------------------------------------------------------
\* The map a table stands for.
AsMap(db) ==
  [n \in {db[i].name : i \in Used(db)} |->
     db[CHOOSE i \in find(db, n) : TRUE].pass]
=============================================================================
