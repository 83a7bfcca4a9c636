----------------------------- MODULE Lifecycle -----------------------------
(***************************************************************************)
(* What moderation promises about a model, with no handlers, threads or    *)
(* statements in sight (module docstring of moderation.py, the comment of  *)
(* set_visibility, README "Moderation"):                                   *)
(*                                                                         *)
(*   - a model is published once, by one author, and stays theirs;         *)
(*   - the only thing the server does to it on its own is to unlist it;    *)
(*   - everything else is carried out under an order a moderator gave;     *)
(*   - a deleted model never comes back.                                   *)
(*                                                                         *)
(* Gallery.tla, statement by statement, is shown to implement this.        *)
(***************************************************************************)
EXTENDS Naturals

CONSTANTS Models,     \* the possible uploads; a row is identified by its bytes
          Keys,       \* console public keys
          NoAuthor    \* the author of a model nobody has uploaded

VARIABLES visibility, \* [Models -> Visibilities \cup {"absent"}]
          author,     \* [Models -> Keys \cup {NoAuthor}]
          orders      \* the <<action, model>> pairs moderators have ordered

vars == <<visibility, author, orders>>

Visibilities == {"public", "unlisted", "deleted"}

AdminActions == {"approve", "unlist", "delete", "ban"}

ActionVisibility == [approve |-> "public",  unlist |-> "unlisted",
                     delete  |-> "deleted", ban    |-> "deleted"]

Init ==
    /\ visibility = [m \in Models |-> "absent"]
    /\ author = [m \in Models |-> NoAuthor]
    /\ orders = {}

Publish(m, k) ==
    /\ visibility[m] = "absent"
    /\ visibility' = [visibility EXCEPT ![m] = "public"]
    /\ author' = [author EXCEPT ![m] = k]
    /\ UNCHANGED orders

Autohide(m) ==
    /\ visibility[m] = "public"
    /\ visibility' = [visibility EXCEPT ![m] = "unlisted"]
    /\ UNCHANGED <<author, orders>>

Order(a, m) ==
    /\ visibility[m] # "absent"
    /\ orders' = orders \cup {<<a, m>>}
    /\ UNCHANGED <<visibility, author>>

CarryOut(a, m) ==
    /\ <<a, m>> \in orders
    /\ visibility[m] \in {"public", "unlisted"}
    /\ visibility' = [visibility EXCEPT ![m] = ActionVisibility[a]]
    /\ UNCHANGED <<author, orders>>

\* A ban reaches every model of the banned author.
TakeDown(m) ==
    /\ <<"ban", m>> \in orders
    /\ visibility' = [n \in Models |-> IF author[n] = author[m] THEN "deleted"
                                                               ELSE visibility[n]]
    /\ UNCHANGED <<author, orders>>

Next ==
    \E m \in Models :
        \/ \E k \in Keys : Publish(m, k)
        \/ Autohide(m)
        \/ \E a \in AdminActions : Order(a, m) \/ CarryOut(a, m)
        \/ TakeDown(m)

Spec == Init /\ [][Next]_vars
=============================================================================
