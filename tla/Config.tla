------------------------------- MODULE Config -------------------------------
(***************************************************************************)
(* Where the settings of a process come from: godotenv adds the file .env  *)
(* to the environment, config.Load reads the environment, a flag that was  *)
(* given replaces what Load has found, and NewPool takes the result.       *)
(* "serve" and "migrate" run side by side in the same environment with the *)
(* same flags.                                                             *)
(*                                                                         *)
(* Two settings stand for all: DATABASE_URL for the strings, which have    *)
(* flags, and DATABASE_MAX_CONNS for the numbers, the only ones that are   *)
(* narrowed, from 64 bits to 32.                                           *)
(***************************************************************************)
EXTENDS Integers

CONSTANTS
  Half,       \* half the values of the narrow integers, 2^31 in Go
  Number,     \* bound: the numbers DATABASE_MAX_CONNS may spell
  Fallback,   \* the default of DATABASE_MAX_CONNS
  Garbage,    \* a value that is not a number
  Url,        \* the URLs of databases
  DefaultUrl, \* the default of DATABASE_URL
  Empty,      \* an empty value
  Unset       \* no value

ASSUME HalfAssumption == Half \in Nat \ {0}
ASSUME FallbackAssumption == Fallback \in 1..(Half - 1)
ASSUME NumberAssumption ==
  Number \subseteq Int /\ {Garbage, Empty, Unset} \cap Number = {}
ASSUME UnsetAssumption == Empty # Unset

VARIABLES
  shell,  \* the environment the processes are started in
  file,   \* what .env says
  flag,   \* --database-url
  at,     \* per command, the step it is at
  env,    \* per command, its environment
  url,    \* per command, the URL it takes
  max,    \* MaxConns of serve
  pool    \* the connections its pool may have, 0 for no pool

vars == <<shell, file, flag, at, env, url, max, pool>>

Command == {"serve", "migrate"}

Environment == [url : Url \cup {Empty, Unset},
                max : Number \cup {Garbage, Empty, Unset}]

Init ==
  /\ shell \in Environment
  /\ file \in Environment
  /\ flag \in Url \cup {Empty, Unset}
  /\ at = [c \in Command |-> "dotenv"]
  /\ env = [c \in Command |-> shell]
  /\ url = [c \in Command |-> Unset]
  /\ max = Fallback
  /\ pool = 0

-----------------------------------------------------------------------------

GoTo(c, l) == at' = [at EXCEPT ![c] = l] /\ UNCHANGED <<shell, file, flag>>

\* A variable that is set, if to nothing, is not replaced.
Merged(s, f) == IF s = Unset THEN f ELSE s

LoadDotenv(c) ==
  /\ at[c] = "dotenv"
  /\ env' = [env EXCEPT ![c] = [k \in {"url", "max"} |-> Merged(shell[k], file[k])]]
  /\ GoTo(c, "load")
  /\ UNCHANGED <<url, max, pool>>

envString(v, fallback) == IF v \in {Empty, Unset} THEN fallback ELSE v

envInt(v, fallback) == IF v \in {Empty, Unset, Garbage} THEN fallback ELSE v

\* Broken: uint32(n).
NarrowUnsigned(n) == n % (2 * Half)
\* int32(n): the low bits, the highest of which is the sign.
Narrow(n) == ((n + Half) % (2 * Half)) - Half

Load(c) ==
  /\ at[c] = "load"
  /\ url' = [url EXCEPT ![c] = envString(env[c].url, DefaultUrl)]
  /\ max' = IF c = "serve" THEN Narrow(envInt(env[c].max, Fallback)) ELSE max
  /\ GoTo(c, "flags")
  /\ UNCHANGED <<env, pool>>

ApplyFlags ==
  /\ at["serve"] = "flags"
  /\ url' = [url EXCEPT !["serve"] = IF flag = Unset THEN @ ELSE flag]
  /\ GoTo("serve", "pool")
  /\ UNCHANGED <<env, max, pool>>

\* Broken: a flag that was given empty counts as not given.
resolveDBURLNonEmpty ==
  /\ at["migrate"] = "flags"
  /\ url' = [url EXCEPT !["migrate"] = IF flag \in {Unset, Empty} THEN @ ELSE flag]
  /\ GoTo("migrate", "done")
  /\ UNCHANGED <<env, max, pool>>

resolveDBURL ==
  /\ at["migrate"] = "flags"
  /\ url' = [url EXCEPT !["migrate"] = IF flag = Unset THEN @ ELSE flag]
  /\ GoTo("migrate", "done")
  /\ UNCHANGED <<env, max, pool>>

\* pgxpool refuses a pool of less than one connection.
NewPool ==
  /\ at["serve"] = "pool"
  /\ pool' = IF max < 1 THEN 0 ELSE max
  /\ GoTo("serve", "done")
  /\ UNCHANGED <<env, url, max>>

Done == (\A c \in Command : at[c] = "done") /\ UNCHANGED vars

Next ==
  \/ \E c \in Command : LoadDotenv(c) \/ Load(c)
  \/ ApplyFlags \/ resolveDBURL \/ NewPool \/ Done

Spec == Init /\ [][Next]_vars

-----------------------------------------------------------------------------
(* Properties. *)

\* What the operator has asked for: the first of shell and file to set it.
Asked == IF shell.max # Unset THEN shell.max ELSE file.max

\* A pool is never larger than what was asked for, in whatever way the number
\* is narrowed, and exactly that when it fits; what cannot be read is the
\* default, also where the file has a better value than the shell.
PoolAsAsked ==
  at["serve"] = "done" =>
    IF Asked \notin Number THEN pool = Fallback
    ELSE /\ Asked \in 1..(Half - 1) => pool = Asked
         /\ Asked >= 1 => pool <= Asked
         /\ Asked \in -Half..0 => pool = 0

\* The tables are made in the database that is served.
SameDatabase ==
  (\A c \in Command : at[c] = "done") => url["serve"] = url["migrate"]

\* What each step has found: the inductive strengthening of both.
Found  == [k \in {"url", "max"} |-> Merged(shell[k], file[k])]
Loaded == envString(Found.url, DefaultUrl)
Chosen == IF flag = Unset THEN Loaded ELSE flag

TypeOK ==
  /\ shell \in Environment /\ file \in Environment
  /\ flag \in Url \cup {Empty, Unset}
  /\ at \in [Command -> {"dotenv", "load", "flags", "pool", "done"}]
  /\ env \in [Command -> Environment]
  /\ url \in [Command -> Url \cup {DefaultUrl, Empty, Unset}]
  /\ max \in -Half..(Half - 1)

Resolution ==
  /\ \A c \in Command :
       /\ at[c] = "load" => env[c] = Found
       /\ at[c] = "flags" => url[c] = Loaded
       /\ at[c] \in {"pool", "done"} => url[c] = Chosen
  /\ at["serve"] \in {"flags", "pool", "done"} =>
       max = Narrow(envInt(Found.max, Fallback))
  /\ at["serve"] = "done" => pool = IF max < 1 THEN 0 ELSE max

ConfigInv == TypeOK /\ Resolution
=============================================================================
