---------------------------- MODULE SocksService ----------------------------
(***************************************************************************)
(* What the proxy promises to each client that connects to it, without     *)
(* buffers, threads, descriptors or an event loop:                         *)
(*   - a client is cleared to make a request only by credentials that are  *)
(*     configured at that moment, or when no user is configured;           *)
(*   - only a cleared client is linked to a target, and it is told SUCCESS *)
(*     exactly when it starts to use the link it was given;                *)
(*   - a client that is refused is told one refusal at most, never         *)
(*     SUCCESS, and nothing after it;                                      *)
(*   - nothing is undone: a client only moves forward through              *)
(*                                                                         *)
(*        none -> open -> cleared -> linked -> granted -> gone             *)
(*                                                                         *)
(*     from which it may be refused until it is linked, and leave at any   *)
(*     time.                                                               *)
(* Module Proxy implements it.                                             *)
(***************************************************************************)
CONSTANTS Clients, Refusals, NoUser

VARIABLES
    standing,            \* how far each client has come
    user,                \* user[c]: as whom client c was cleared
    message,             \* message[c]: the last thing client c was told
    configured           \* the configured users

vars == <<standing, user, message, configured>>

Init ==
    /\ standing = [c \in Clients |-> "none"]
    /\ user = [c \in Clients |-> NoUser]
    /\ message = [c \in Clients |-> "nothing"]

Move(c, from, to) ==
    /\ standing[c] = from
    /\ standing' = [standing EXCEPT ![c] = to]

Arrive(c) ==
    /\ Move(c, "none", "open")
    /\ UNCHANGED <<user, message, configured>>

\* Cleared as a configured user, or as nobody when there are none.
Clear(c) ==
    /\ Move(c, "open", "cleared")
    /\ \/ configured = {} /\ UNCHANGED user
       \/ \E u \in configured : user' = [user EXCEPT ![c] = u]
    /\ UNCHANGED <<message, configured>>

Link(c) ==
    /\ Move(c, "cleared", "linked")
    /\ UNCHANGED <<user, message, configured>>

Refuse(c) ==
    /\ Move(c, "open", "refused") \/ Move(c, "cleared", "refused")
    /\ UNCHANGED <<user, message, configured>>

\* A word of the negotiation: the chosen method, or that credentials are good.
Negotiate(c) ==
    /\ \/ standing[c] = "open" /\ message' = [message EXCEPT ![c] = "USERPASS"]
       \/ /\ standing[c] = "cleared"
          /\ message' = [message EXCEPT ![c] =
                            IF user[c] = NoUser THEN "NO_AUTH" ELSE "AUTH_SUCCESS"]
    /\ UNCHANGED <<standing, user, configured>>

Grant(c) ==
    /\ Move(c, "linked", "granted")
    /\ message' = [message EXCEPT ![c] = "SUCCESS"]
    /\ UNCHANGED <<user, configured>>

\* Refused clients are dismissed with their refusal.
Dismiss(c) ==
    /\ Move(c, "refused", "gone")
    /\ \E m \in Refusals : message' = [message EXCEPT ![c] = m]
    /\ user' = [user EXCEPT ![c] = NoUser]
    /\ UNCHANGED configured

Leave(c) ==
    /\ standing[c] \notin {"none", "gone"}
    /\ standing' = [standing EXCEPT ![c] = "gone"]
    /\ user' = [user EXCEPT ![c] = NoUser]
    /\ UNCHANGED <<message, configured>>

Configure ==
    /\ configured' # configured
    /\ UNCHANGED <<standing, user, message>>

Next ==
    \/ \E c \in Clients :
        \/ Arrive(c) \/ Clear(c) \/ Link(c) \/ Refuse(c) \/ Negotiate(c)
        \/ Grant(c) \/ Dismiss(c) \/ Leave(c)
    \/ Configure

Spec == Init /\ [][Next]_vars
=============================================================================
