------------------------------ MODULE MCStartup -------------------------------
(* Small values for Startup. *)
EXTENDS Startup

Short  == [host |-> "node", domain |-> <<>>, caps |-> FALSE]
Capped == [host |-> "node", domain |-> <<>>, caps |-> TRUE]
Long   == [host |-> "node", domain |-> <<"lan">>, caps |-> FALSE]
Longer == [host |-> "node", domain |-> <<"lan", "net">>, caps |-> FALSE]
FewNames == {NoName, Short, Capped, Long, Longer}

(* Commands. *)
Attach  == [NoFlags EXCEPT !.url = "http://ci", !.create = TRUE, !.persist = TRUE]
Help    == [NoFlags EXCEPT !.help = TRUE]
Fetch   == [NoFlags EXCEPT !.mode = "ssh-server", !.name = Long, !.secret = "key",
                           !.initial = "remote"]
Replace == [NoFlags EXCEPT !.initial = "self", !.overwrite = TRUE]
FewCommands == {NoFlags, Attach, Help, Fetch, Replace}

(* A file that a user wrote, with few settings, and one from the network.  *)
UserFile == Complete([url |-> "http://ci", tunnel |-> TRUE, name |-> Short,
                      head |-> "custom", tail |-> "custom"])
NetworkDoc == Complete([mode |-> "ssh-server", url |-> "http://ci"])
FewFiles == {Absent, UserFile}
FewDocs == {NetworkDoc}
FewNodeSets == {{}, {Capped, Longer}}
=============================================================================
