--------------------------- MODULE LoginSessions ----------------------------
(***************************************************************************)
(* Who is logged in on which terminal: pam_teal in the stack of sshd, login *)
(* and su tells teald of every session that opens and closes; the requests  *)
(* of a process are judged with the session of its terminal.  src/pam_teal, *)
(* src/teald/src/pam_server.rs and check_registered_session of types.rs.    *)
(*                                                                         *)
(* The module is optional in the stack: a session goes on if it fails.      *)
(* Every notification is a connection of its own, each served by a task of  *)
(* its own, so two of them may overtake.  While teald is down they are      *)
(* lost; with it goes the registry.                                         *)
(***************************************************************************)
EXTENDS Sequences, Integers

CONSTANTS
    Session,    \* handles of PAM
    User,
    From,       \* addresses logins come from, or none
    Tty,
    Unknown,    \* the name for a session without terminal
    MaxFlight,  \* bound on the notifications under way
    Nobody

ASSUME LoginAssumption ==
    /\ MaxFlight \in Nat \ {0}
    /\ Unknown \notin Tty
    /\ Nobody \notin Tty \cup {Unknown}

VARIABLES
    up,         \* teald listens on its socket
    handle,     \* the PAM handle of a session
    onTty,      \* sessions of a terminal, in the order they opened
    flight,     \* notifications not yet served, in the order they were sent
    sessions,   \* active_tty_sessions
    doubtful    \* history: terminals that were told wrong of

loginVars == <<up, handle, onTty, flight, sessions, doubtful>>

Key == Tty \cup {Unknown}
Login == [uid : User, from : From, method : {"password", Nobody}]
Event == [action : {"login", "logout"}, tty : Key, login : Login]
Handle == [tty : Key \cup {Nobody}, method : {"password", Nobody},
           login : Login \cup {Nobody}]
Out == [tty |-> Nobody, method |-> Nobody, login |-> Nobody]

LoginTypeOK ==
    /\ up \in BOOLEAN
    /\ handle \in [Session -> Handle]
    /\ onTty \in [Key -> Seq(Session)]
    /\ flight \in Seq(Event)
    /\ sessions \in [Key -> Login \cup {Nobody}]
    /\ doubtful \subseteq Key

LoginInit ==
    /\ up \in BOOLEAN
    /\ handle = [s \in Session |-> Out]
    /\ onTty = [t \in Key |-> <<>>]
    /\ flight = <<>>
    /\ sessions = [t \in Key |-> Nobody]
    /\ doubtful = {}

-----------------------------------------------------------------------------
(* pam_teal. *)

RemovedAt(seq, i) == [j \in 1 .. Len(seq) - 1 |-> seq[IF j < i THEN j ELSE j + 1]]

\* notify_teald: without a listener, nothing is sent and nobody told.
Notify(action, t, login) ==
    IF up THEN /\ Len(flight) < MaxFlight
               /\ flight' = Append(flight, [action |-> action, tty |-> t,
                                            login |-> login])
          ELSE UNCHANGED flight
Doubt(t) == doubtful \cup (IF up /\ Len(onTty'[t]) < 2 THEN {} ELSE {t})

\* pam_sm_authenticate, if a password is asked for.
Authenticate(s) ==
    /\ handle[s] = Out
    /\ handle' = [handle EXCEPT ![s].method = "password"]
    /\ UNCHANGED <<up, onTty, flight, sessions, doubtful>>

\* A terminal is given to one login; su opens a session on it once more.
Enter(s, t) ==
    /\ handle[s].tty = Nobody
    /\ onTty' = [onTty EXCEPT ![t] = Append(@, s)]
    /\ UNCHANGED <<up, sessions>>

\* pam_sm_open_session.
OpenSession(s, t, uid, from) ==
    LET login == [uid |-> uid, from |-> from, method |-> handle[s].method]
    IN  /\ Enter(s, t)
        /\ handle' = [handle EXCEPT ![s].tty = t, ![s].login = login]
        /\ Notify("login", t, login)
        /\ doubtful' = Doubt(t)

\* The user is not resolved: the session opens, and teald does not hear of it.
OpenUnresolved(s, t) ==
    /\ Enter(s, t)
    /\ handle' = [handle EXCEPT ![s].tty = t]
    /\ doubtful' = doubtful \cup (IF onTty[t] = <<>> THEN {} ELSE {t})
    /\ UNCHANGED flight

\* pam_sm_close_session: without the user id that was kept, nothing is told.
CloseSession(s) ==
    LET t == handle[s].tty
    IN  /\ t # Nobody
        /\ handle' = [handle EXCEPT ![s] = Out]
        /\ \E i \in DOMAIN onTty[t] :
               /\ onTty[t][i] = s
               /\ onTty' = [onTty EXCEPT ![t] = RemovedAt(@, i)]
        /\ IF handle[s].login # Nobody
           THEN Notify("logout", t, handle[s].login) /\ doubtful' = Doubt(t)
           ELSE UNCHANGED <<flight, doubtful>>
        /\ UNCHANGED <<up, sessions>>

-----------------------------------------------------------------------------
(* teald. *)

\* Faulty variant: what is registered stays.
FirstLogin(registered, login) == IF registered = Nobody THEN login ELSE registered

\* The last login stands, whatever was registered.
Registered(registered, login) == login

\* process_pam_event, in whatever order the tasks get the lock.
ProcessEvent(i) ==
    LET e == flight[i]
        others == {j \in DOMAIN flight \ {i} : flight[j].tty = e.tty}
        last == IF e.action = "login" THEN <<e.login>> ELSE <<>>
    IN  /\ up
        /\ sessions' = [sessions EXCEPT ![e.tty] =
                            IF e.action = "login" THEN Registered(@, e.login)
                            ELSE Nobody]
        /\ flight' = RemovedAt(flight, i)
        /\ doubtful' =
               IF \E j \in others : j < i THEN doubtful \cup {e.tty}
               ELSE IF others = {} /\ last = [j \in DOMAIN onTty[e.tty] |->
                                                  handle[onTty[e.tty][j]].login]
               THEN doubtful \ {e.tty}
               ELSE doubtful
        /\ UNCHANGED <<up, handle, onTty>>

Stop ==
    /\ up
    /\ up' = FALSE
    /\ flight' = <<>>
    /\ sessions' = [t \in Key |-> Nobody]
    /\ doubtful' = doubtful \cup {t \in Key : onTty[t] # <<>>}
                            \cup {flight[i].tty : i \in DOMAIN flight}
    /\ UNCHANGED <<handle, onTty>>

\* start_pam_listener.
Start ==
    /\ ~up
    /\ up' = TRUE
    /\ UNCHANGED <<handle, onTty, flight, sessions, doubtful>>

OfUser(session, uid) == session # Nobody /\ session.uid = uid

\* A process that has no terminal has no session.
CheckRegisteredSession(t, uid) ==
    IF t # Unknown /\ OfUser(sessions[t], uid) THEN sessions[t] ELSE Nobody

-----------------------------------------------------------------------------
LoginNext ==
    \/ Stop \/ Start
    \/ \E s \in Session :
           \/ Authenticate(s)
           \/ \E t \in Key :
                  \/ OpenUnresolved(s, t)
                  \/ \E uid \in User, from \in From :
                         OpenSession(s, t, uid, from)
           \/ CloseSession(s)
    \/ \E i \in DOMAIN flight : ProcessEvent(i)

LoginSpec == LoginInit /\ [][LoginNext]_loginVars

-----------------------------------------------------------------------------
(* Properties. *)

\* Once the notifications of a terminal are served, a process there is given
\* the login of its user if that is who is in, and none else: unless one of them
\* was lost or overtaken or su opened a session there, and again from the next
\* login on (process_pam_event, pam_server.rs:91).
SessionIsWhoIsIn ==
    \A t \in Tty \ doubtful, uid \in User :
        LET in == IF onTty[t] = <<>> THEN Nobody ELSE handle[onTty[t][1]].login
        IN  (\A i \in DOMAIN flight : flight[i].tty # t) =>
                CheckRegisteredSession(t, uid) =
                    IF in # Nobody /\ in.uid = uid THEN in ELSE Nobody

=============================================================================
