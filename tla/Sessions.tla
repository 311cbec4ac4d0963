------------------------------ MODULE Sessions ------------------------------
(***************************************************************************)
(* Who is who: the role of a user's account, which an administrator may    *)
(* change, and the sessions, which carry the role the account had when the *)
(* user logged in.  Sessions are told apart by that role.  They last for a *)
(* fixed time from login; nothing renews them.                             *)
(***************************************************************************)
CONSTANTS
  Roles   \* roles the user may be given

VARIABLES
  role,      \* the role in the table users
  login,     \* the role read by the login under way, NoLogin without one
  accepted   \* the roles of the sessions that have not expired

sessionVars == <<role, login, accepted>>

NoLogin == "nobody"

ASSUME NoLoginAssumption == NoLogin \notin Roles

SessionsInit ==
  /\ role \in Roles
  /\ login = NoLogin
  /\ accepted = {}

\* AddUser: creating an account that exists gives it a new role.
SetRole ==
  /\ \E r \in Roles \ {role} : role' = r
  /\ UNCHANGED <<login, accepted>>

\* Mutant: a login with a session renews it instead of asking for the account.
ReadUser_Renews ==
  /\ login = NoLogin
  /\ login' \in accepted \cup {role}
  /\ UNCHANGED <<role, accepted>>

\* LoginWithUser reads the account,
ReadUser ==
  /\ login = NoLogin
  /\ login' = role
  /\ UNCHANGED <<role, accepted>>

\* compares the password and adds the session, with the role it has read.
AddSession ==
  /\ login # NoLogin
  /\ accepted' = accepted \cup {login}
  /\ login' = NoLogin
  /\ UNCHANGED role

\* The last session with role r has been there for its 24 hours.
Expire(r) ==
  /\ r \in accepted
  /\ accepted' = accepted \ {r}
  /\ UNCHANGED <<role, login>>

\* Authenticate: there is a session for the token and it has not expired.
Authenticated == accepted # {}

SessionsNext == SetRole \/ ReadUser \/ AddSession \/ \E r \in Roles : Expire(r)
=============================================================================
