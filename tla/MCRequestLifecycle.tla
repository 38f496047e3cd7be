------------------------ MODULE MCRequestLifecycle --------------------------
(* Small instances of RequestLifecycle: two requests on two machines.      *)
EXTENDS RequestLifecycle, TLC

CONSTANTS r1, r2, m1, m2

\* A deployment, and a batch whose list names a machine twice.
CreateAndBatch == r1 :> "create" @@ r2 :> "delete"
NamedTwice == r1 :> <<m1>> @@ r2 :> <<m2, m2>>

\* A reconfiguration, which shares its err, and a device change.
ReconfigureAndDevice == r1 :> "reconfigure" @@ r2 :> "reconfigure_disk"
OneMachineEach == r1 :> <<m1>> @@ r2 :> <<m2>>

\* Single requests.
OneCreate == r1 :> "create"
OneReconfigure == r1 :> "reconfigure"
OneTarget == r1 :> <<m1>>

FirstHasCallback == [r \in Requests |-> r = r1]
SecondHasCallback == [r \in Requests |-> r = r2]
NoneHasCallback == [r \in Requests |-> FALSE]

=============================================================================
