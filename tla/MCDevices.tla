----------------------------- MODULE MCDevices -----------------------------
(* The keys and units of a machine as vCenter makes it: the SCSI controller on *)
(* unit 3 of the PCI bus, the mouse on unit 1 of its own controller, a card on *)
(* unit 7.                                                                     *)
EXTENDS Devices, TLC

D(key, kind, ctrl, unit, on) == Device(key, kind, ctrl, unit, on, TRUE, Nobody)
System == D(20, "disk", 10, 0, "s1")
Bare == {D(7, "other", 3, 1, None), D(10, "controller", 1, 3, None), System}
Card == D(40, "card", 1, 7, "n1")
\* One place is left on a controller that has the units 0 to 8, of which 7 is
\* its own.
NearlyFull == {D(10, "controller", 1, 3, None), System}
                 \cup {D(20 + u, "disk", 10, u, "s1") : u \in 1..6}
MCLayouts == {Bare \cup {Card},
              Bare \cup {Card, D(21, "disk", 10, 1, "s1")},
              Bare \cup {[D(21, "disk", 10, 1, "s1") EXCEPT !.flat = FALSE],
                         D(22, "disk", 10, 2, "s2")},
              {System, Card},
              NearlyFull}

Ask == Request("disk", << >>, {}, << >>, {}, {})
AskNic == [Ask EXCEPT !.kind = "nic"]
MCRequests == {[Ask EXCEPT !.disks = <<"s2">>],
               [Ask EXCEPT !.disks = <<"s1">>, !.removes = {20, 21, 41, 99}],
               [Ask EXCEPT !.disks = <<None>>],
               [Ask EXCEPT !.disks = <<"s2", "s3">>],
               [Ask EXCEPT !.disks = <<"s3">>, !.edits = {21, 99}],
               [AskNic EXCEPT !.cards = <<"n1", "n2">>, !.removes = {40}],
               [AskNic EXCEPT !.moves = {[key |-> 40, net |-> "n2"]}],
               [AskNic EXCEPT !.removes = {21, 40}]}
=============================================================================
