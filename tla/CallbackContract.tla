-------------------------- MODULE CallbackContract --------------------------
(***************************************************************************)
(* What the facade promises to a client that sends it asynchronous         *)
(* requests, without handlers, records, closures or startup: an accepted   *)
(* request stays somebody's duty until its client has been called back, or *)
(* is lost in one of two ways that the promise admits (its record was      *)
(* never written, its closure panicked).                                   *)
(***************************************************************************)
CONSTANTS
    Requests,
    Shared      \* the requests whose closure shares its error variable with
                \* the handler: the one kind that may run though its client
                \* was answered with an error

VARIABLES
    duty,       \* the requests somebody still has to call back about
    answer,     \* answer[r]: the HTTP answer
    told,       \* told[r]: the kinds of callback sent for r
    lost        \* the requests excused from a callback

cvars == <<duty, answer, told, lost>>

Answers == {"accepted", "refused", "error"}
Kinds == {"report", "interrupted"}
Negative == {"refused", "error"}

\* The client has its callback, or will never have one.
Settled(r) == told[r] # {} \/ r \in lost

Init ==
    /\ duty = {} /\ lost = {}
    /\ answer = [r \in Requests |-> "none"]
    /\ told = [r \in Requests |-> {}]

\* Somebody takes a request on, before it is answered.
Take(r) ==
    /\ answer[r] = "none"
    /\ duty' = duty \cup {r}
    /\ UNCHANGED <<answer, told, lost>>

\* A request is lost before it is answered or while it is a duty.
Lose(r) ==
    /\ answer[r] = "none" \/ r \in duty
    /\ lost' = lost \cup {r}
    /\ UNCHANGED <<duty, answer, told>>

\* A request is answered once; only what is taken care of is accepted, and what
\* has been reported on is not refused.
Reply(r, a) ==
    /\ answer[r] = "none"
    /\ a = "accepted" => r \in duty \/ Settled(r)
    /\ a \in Negative /\ r \notin Shared => "report" \notin told[r]
    /\ answer' = [answer EXCEPT ![r] = a]
    /\ \/ duty' = duty
       \/ a = "error" /\ duty' = duty \ {r}
    /\ UNCHANGED <<told, lost>>

\* The client is called back about a request that is still a duty, and with a
\* report only if it was not told that nothing would be done.
Tell(r, k) ==
    /\ r \in duty
    /\ k = "report" /\ r \notin Shared => answer[r] \notin Negative
    /\ told' = [told EXCEPT ![r] = @ \cup {k}]
    /\ duty' \in {duty, duty \ {r}}
    /\ UNCHANGED <<answer, lost>>

\* Duties end (a closure is done, a record is cancelled, a process dies): none
\* of an accepted request whose client is still waiting.
Release ==
    /\ duty' \subseteq duty
    /\ \A r \in duty \ duty' : answer[r] = "accepted" => Settled(r)
    /\ UNCHANGED <<answer, told, lost>>

Next == \/ \E r \in Requests : \/ Take(r) \/ Lose(r)
                               \/ \E a \in Answers : Reply(r, a)
                               \/ \E k \in Kinds : Tell(r, k)
        \/ Release

Spec == Init /\ [][Next]_cvars

-----------------------------------------------------------------------------

\* What the promise comes to: whoever was told "accepted" has been called back,
\* is going to be, or is excused.
NobodyForgotten ==
    \A r \in Requests : answer[r] = "accepted" => r \in duty \/ Settled(r)

=============================================================================
