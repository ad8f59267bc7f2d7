-------------------------------- MODULE Api --------------------------------
(***************************************************************************)
(* The requests on single users and accounts, and what the OpenAPI         *)
(* validator, the handlers and the domain services refuse before any SQL   *)
(* is sent.  Lists are the subject of PageWalk.                            *)
(*                                                                         *)
(* The id of a create request is the uuid the repository draws for the new *)
(* row.                                                                    *)
(***************************************************************************)

CONSTANTS
  UserId,     \* uuids of users
  AccountId,  \* uuids of accounts
  Stranger,   \* a uuid no row ever has
  Malformed,  \* a path segment that is no uuid
  Email,      \* non-empty e-mail addresses
  Name,       \* non-empty names
  Empty,      \* the empty string
  Absent,     \* an attribute that is missing
  None        \* no row, no request, no statement

UserKey    == UserId \cup {Stranger, Malformed}
AccountKey == AccountId \cup {Stranger, Malformed}

EmailParam == Email \cup {Empty, Absent}
NameParam  == Name \cup {Empty, Absent}

\* A currency of three ASCII letters; one of three wider characters, which
\* the schema counts and len does not; one of another length, or none.
Currency == {"ascii", "wide", "other"}

CreateUser    == [op: {"createUser"}, id: UserId,
                  email: EmailParam, name: NameParam]
GetUser       == [op: {"getUser"}, id: UserKey]
UpdateUser    == [op: {"updateUser"}, id: UserKey,
                  email: EmailParam, name: NameParam]
DeleteUser    == [op: {"deleteUser"}, id: UserKey]
CreateAccount == [op: {"createAccount"}, id: AccountId, owner: UserKey,
                  name: NameParam, currency: Currency]
GetAccount    == [op: {"getAccount"}, id: AccountKey]
UpdateAccount == [op: {"updateAccount"}, id: AccountKey, name: NameParam]
DeleteAccount == [op: {"deleteAccount"}, id: AccountKey]

Request == CreateUser \cup GetUser \cup UpdateUser \cup DeleteUser \cup
           CreateAccount \cup GetAccount \cup UpdateAccount \cup DeleteAccount

\* The schemas of the request bodies.  They require the attributes of a
\* create, names of at least one character and three-character currencies;
\* "format: email" has no validator registered and lets every string through.
SchemaRejects(r) ==
  \/ r \in CreateUser /\ (r.email = Absent \/ r.name \in {Absent, Empty})
  \/ r \in UpdateUser \cup UpdateAccount /\ r.name = Empty
  \/ r \in CreateAccount /\ (r.name \in {Absent, Empty} \/ r.currency = "other")

\* pathUUID.
PathRejects(r) ==
  r.id = Malformed \/ (r \in CreateAccount /\ r.owner = Malformed)

BadRequest(r) == SchemaRejects(r) \/ PathRejects(r)

\* The checks of user.Create and account.Create; Update has none.
Unprocessable(r) ==
  \/ r \in CreateUser /\ (r.email = Empty \/ r.name = Empty)
  \/ r \in CreateAccount /\ (r.name = Empty \/ r.currency # "ascii")

Accepted(r) == ~BadRequest(r) /\ ~Unprocessable(r)

UserRow    == [email: Email \cup {Empty}, name: Name]
AccountRow == [owner: UserId, name: Name]

\* A uuid belongs to one row, and the two wrong ids to none.
ASSUME KeyAssumption ==
  /\ UserId \cap AccountId = {}
  /\ {Stranger, Malformed} \cap (UserId \cup AccountId) = {}
ASSUME AbsentAssumption == Absent \notin Email \cup {Empty}
ASSUME NoneAssumption == None \notin UserRow \cup AccountRow \cup Request
=============================================================================
