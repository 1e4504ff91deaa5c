----------------------------- MODULE MCLongPoll -----------------------------
(* Instances of LongPoll for TLC: services of one device, and one domain. *)
EXTENDS LongPoll

CONSTANTS s1, s2, d1, dev

TwoServices  == {s1, s2}
OneService   == {s1}
OneDomain    == {d1}
NoDomain     == {}
OneDevice    == [s \in Services |-> dev]
NoFaults     == {}
PollFault    == {"poll"}
BothFlavours == {"sync", "async"}
SyncOnly     == {"sync"}
AsyncOnly    == {"async"}
=============================================================================
