---------------------------- MODULE MCInstallation ----------------------------
(* Installation with three edits of the operator's.                          *)
EXTENDS Installation

MCOperatorEdits == { [db |-> "", inputs |-> "own", token |-> "omitted"],
                     [db |-> "mine", inputs |-> "own", token |-> "file"] }
MCLiveEdits == { [iface |-> "eth1", paths |-> "mine", dumpcap |-> "mine"],
                 [iface |-> "", paths |-> "mine", dumpcap |-> "default"] }
=============================================================================
