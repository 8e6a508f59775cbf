---------------------------- MODULE Notifications ----------------------------
(* The notification server: the calls of org.freedesktop.Notifications it   *)
(* answers, the notifications it holds, the policy that decides on a banner *)
(* and a sound.                                                             *)
(* The server is started again with the shell, and counts from one again.   *)
EXTENDS Naturals, FiniteSets

CONSTANTS Apps,         \* the senders
          MaxNotified,  \* bound on the numbers given out in one session
          MaxSessions   \* bound on the starts of the server

VARIABLES live,      \* NotificationServer.live: number -> the sender of what it holds
          next_id,   \* _next_id
          given,     \* app -> the numbers the counter gave it in this session
          session,   \* how often the server was started
          switches,  \* the notification switches of Settings
          said       \* the message handled last, with the number it names (0: none)

notifyVars == <<live, next_id, given, session, switches, said>>

Numbers == 1..MaxNotified + 1
Urgencies == {"normal", "critical"}
Defaults == [dnd |-> FALSE, banners |-> TRUE, sound |-> TRUE]
NoSender == "none"
Live == {n \in Numbers : live[n] # NoSender}
Nothing == [what |-> "nothing"]

\* policy_from: a critical notification is shown and heard, whatever is off.
Banner(u) == u = "critical" \/ (switches.banners /\ ~switches.dnd)
Silent(u) == u # "critical" /\ (switches.dnd \/ ~switches.sound)
Notification(a, u) == [app |-> a, urgency |-> u, banner |-> Banner(u), silent |-> Silent(u)]

NotifyInit == /\ live = [n \in Numbers |-> NoSender] /\ next_id = 1
              /\ given = [a \in Apps |-> {}] /\ session = 1
              /\ switches = Defaults /\ said = Nothing

\* A variant in which the counter stands still.
NotifyUncounted(a, u, replaces) ==
    LET n == IF replaces = 0 THEN next_id ELSE replaces IN
    /\ live' = [live EXCEPT ![n] = a]
    /\ given' = IF replaces = 0 THEN [given EXCEPT ![a] = @ \cup {n}] ELSE given
    /\ said' = [what |-> "Notify", by |-> a, names |-> replaces, note |-> Notification(a, u)]
    /\ UNCHANGED <<next_id, session, switches>>

(* Notify: a number the sender names is taken as it is, whoever holds it and *)
(* whether or not the counter has come to it; 0 gets the next one.           *)
Notify(a, u, replaces) ==
    LET fresh == replaces = 0
        n == IF fresh THEN next_id ELSE replaces
    IN  /\ fresh => next_id <= MaxNotified
        /\ next_id' = IF fresh THEN next_id + 1 ELSE next_id
        /\ live' = [live EXCEPT ![n] = a]
        /\ given' = IF fresh THEN [given EXCEPT ![a] = @ \cup {n}] ELSE given
        /\ said' = [what |-> "Notify", by |-> a, names |-> replaces, note |-> Notification(a, u)]
        /\ UNCHANGED <<session, switches>>
NotifyNew == \E a \in Apps, u \in Urgencies : Notify(a, u, 0)
NotifyAgain == \E a \in Apps, u \in Urgencies, n \in Numbers : Notify(a, u, n)

\* close(): a number that is not held is ignored; any sender may name any number.
close(n, by) ==
    /\ live' = [live EXCEPT ![n] = NoSender]
    /\ said' = [what |-> "close", by |-> by, names |-> n]
    /\ UNCHANGED <<next_id, given, session, switches>>
CloseNotification == \E a \in Apps, n \in Numbers : close(n, a)
Dismiss == \E n \in Live : close(n, "user")

\* Bound: at most one switch is away from its default.
Switch == /\ \E k \in DOMAIN Defaults :
                /\ \A j \in DOMAIN Defaults \ {k} : switches[j] = Defaults[j]
                /\ switches' = [switches EXCEPT ![k] = ~@]
          /\ said' = Nothing /\ UNCHANGED <<live, next_id, given, session>>
ServerRestart == /\ session < MaxSessions /\ session' = session + 1
                 /\ live' = [n \in Numbers |-> NoSender] /\ next_id' = 1
                 /\ given' = [a \in Apps |-> {}] /\ said' = Nothing /\ UNCHANGED switches

NotifyNext == NotifyNew \/ NotifyAgain \/ CloseNotification \/ Dismiss \/ Switch \/ ServerRestart
NotifySpec == NotifyInit /\ [][NotifyNext]_notifyVars
-----------------------------------------------------------------------------
(* Whatever numbers the senders name, their own, another's, one of an        *)
(* earlier server or one not given out yet: a sender that names none takes   *)
(* no notification from another whose number the counter gave out, and the   *)
(* counter gives no two senders one number.  What another sender holds goes  *)
(* only by a call that names its number, or when it was taken under a number *)
(* the counter had not reached.                                              *)
OnlyWhoNamesItReplaces ==
    [][/\ \A n \in Live : \/ live'[n] = live[n] \/ session' # session
                          \/ said'.by \in {"user", live[n]} \/ said'.names = n
                          \/ \A a \in Apps : n \notin given[a]
       /\ \A a, b \in Apps : a = b \/ given'[a] \cap given'[b] = {}]_notifyVars
=============================================================================
