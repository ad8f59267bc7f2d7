---------------------------- MODULE ConfigProofs ----------------------------
(* Theorems about Config, for integers of every width. *)
EXTENDS Config, TLAPS

\* int32 of 64 bits: a narrow integer, the same when it fits, never more than a
\* positive number.
LEMMA NarrowFacts ==
  ASSUME NEW n \in Int
  PROVE  /\ Narrow(n) \in -Half..(Half - 1)
         /\ n \in -Half..(Half - 1) => Narrow(n) = n
         /\ n >= 1 => Narrow(n) <= n
<1> DEFINE x == n + Half
           w == 2 * Half
<1>1. x \in Int /\ w \in Nat \ {0} /\ Half \in Nat /\ Half >= 1
  BY HalfAssumption
<1>2. x % w \in 0..(w - 1)
  BY <1>1
<1>3. n \in -Half..(Half - 1) => x % w = x
  <2>1. n \in -Half..(Half - 1) => x \in 0..(w - 1)
    BY <1>1
  <2>2. x \in 0..(w - 1) => x % w = x
    <3> HIDE DEF x, w
    <3> QED BY <1>1
  <2> QED BY <2>1, <2>2
<1>4. Narrow(n) = (x % w) - Half
  BY DEF Narrow
<1> HIDE DEF x
<1>5. Narrow(n) \in -Half..(Half - 1)
  BY <1>1, <1>2, <1>4
<1> USE DEF x
<1> QED BY <1>1, <1>3, <1>4, <1>5

LEMMA InitInv == Init => ConfigInv
BY HalfAssumption, FallbackAssumption
   DEF Init, ConfigInv, TypeOK, Resolution, Environment, Command

\* What is read is a number.
LEMMA ReadFacts ==
  ASSUME TypeOK
  PROVE  /\ Found \in Environment
         /\ envInt(Found.max, Fallback) \in Int
<1>1. Found \in Environment
  BY DEF TypeOK, Found, Environment, Merged
<1> QED BY <1>1, NumberAssumption, FallbackAssumption, HalfAssumption
        DEF envInt, Environment

LEMMA NextInv == ConfigInv /\ [Next]_vars => ConfigInv'
<1> SUFFICES ASSUME ConfigInv, [Next]_vars PROVE ConfigInv'
  OBVIOUS
<1> USE DEF ConfigInv
<1>0. CASE UNCHANGED vars
  BY <1>0 DEF vars, TypeOK, Resolution, Found, Loaded, Chosen
<1>1. ASSUME NEW c \in Command, LoadDotenv(c) PROVE ConfigInv'
  <2>1. env' = [env EXCEPT ![c] = Found] /\ Found' = Found
    BY <1>1 DEF LoadDotenv, GoTo, Found
  <2>2. TypeOK'
    BY <1>1, <2>1, ReadFacts DEF LoadDotenv, GoTo, TypeOK
  <2>3. Resolution'
    BY <1>1, <2>1 DEF LoadDotenv, GoTo, TypeOK, Resolution, Loaded, Chosen
  <2> QED BY <2>2, <2>3
<1>2. ASSUME NEW c \in Command, Load(c) PROVE ConfigInv'
  <2>1. Found' = Found /\ env[c] = Found /\ at[c] = "load"
    BY <1>2 DEF Load, GoTo, Found, Resolution
  <2>2. max' \in -Half..(Half - 1)
    BY <1>2, <2>1, ReadFacts, NarrowFacts DEF Load, TypeOK
  <2>3. url' = [url EXCEPT ![c] = Loaded]
    BY <1>2, <2>1 DEF Load, Loaded
  <2>4. Loaded \in Url \cup {DefaultUrl, Empty, Unset}
    BY ReadFacts DEF Loaded, envString, Environment
  <2>5. TypeOK'
    BY <1>2, <2>2, <2>3, <2>4 DEF Load, GoTo, TypeOK
  <2>6. Resolution'
    BY <1>2, <2>1, <2>3 DEF Load, GoTo, TypeOK, Resolution, Loaded, Chosen
  <2> QED BY <2>5, <2>6
<1>3. CASE ApplyFlags
  <2>1. Found' = Found
    BY <1>3 DEF ApplyFlags, GoTo, Found
  <2>2. TypeOK'
    BY <1>3 DEF ApplyFlags, GoTo, TypeOK, Command
  <2>3. Resolution'
    BY <1>3, <2>1 DEF ApplyFlags, GoTo, TypeOK, Resolution, Loaded, Chosen, Command
  <2> QED BY <2>2, <2>3
<1>4. CASE resolveDBURL
  <2>1. Found' = Found
    BY <1>4 DEF resolveDBURL, GoTo, Found
  <2>2. TypeOK'
    BY <1>4 DEF resolveDBURL, GoTo, TypeOK, Command
  <2>3. Resolution'
    BY <1>4, <2>1 DEF resolveDBURL, GoTo, TypeOK, Resolution, Loaded, Chosen, Command
  <2> QED BY <2>2, <2>3
<1>5. CASE NewPool
  <2>1. Found' = Found
    BY <1>5 DEF NewPool, GoTo, Found
  <2>2. TypeOK'
    BY <1>5 DEF NewPool, GoTo, TypeOK, Command
  <2>3. Resolution'
    BY <1>5, <2>1 DEF NewPool, GoTo, TypeOK, Resolution, Loaded, Chosen, Command
  <2> QED BY <2>2, <2>3
<1> QED BY <1>0, <1>1, <1>2, <1>3, <1>4, <1>5 DEF Next, Done

LEMMA Invariance == Spec => []ConfigInv
<1> QED BY InitInv, NextInv, PTL DEF Spec

\* The pool is what was asked for when that fits, and never more.
THEOREM PoolIsAsAsked == Spec => []PoolAsAsked
<1>1. ConfigInv => PoolAsAsked
  <2> SUFFICES ASSUME ConfigInv, at["serve"] = "done" PROVE PoolAsAsked
    BY DEF PoolAsAsked
  <2> DEFINE read == envInt(Asked, Fallback)
  <2>1. Found.max = Asked
    BY DEF Found, Asked, Merged
  <2>2. max = Narrow(read) /\ pool = IF max < 1 THEN 0 ELSE max
    BY <2>1 DEF ConfigInv, Resolution
  <2>3. Asked \in Number \cup {Garbage, Empty, Unset}
    BY DEF ConfigInv, TypeOK, Environment, Asked
  <2>4. CASE Asked \notin Number
    <3>1. read = Fallback
      BY <2>3, <2>4 DEF envInt
    <3> QED BY <2>2, <2>4, <3>1, NarrowFacts, FallbackAssumption, HalfAssumption
            DEF PoolAsAsked
  <2>5. CASE Asked \in Number
    <3>1. read = Asked /\ Asked \in Int
      BY <2>5, NumberAssumption DEF envInt
    <3> QED BY <2>2, <2>5, <3>1, NarrowFacts, HalfAssumption DEF PoolAsAsked
  <2> QED BY <2>4, <2>5
<1> QED BY <1>1, Invariance, PTL

\* The tables are made in the database that is served.
THEOREM SameDatabaseServed == Spec => []SameDatabase
<1>1. ConfigInv => SameDatabase
  BY DEF ConfigInv, Resolution, SameDatabase, Command
<1> QED BY <1>1, Invariance, PTL
=============================================================================
