-------------------------- MODULE MCPartOnMachine ---------------------------
(* One directory of two names on every table of up to three mounts, three  *)
(* specifications of which two have files of one size, one part, another   *)
(* part that writes the same journal, and one recorder of settings.        *)
EXTENDS PartOnMachineProperties

MCDirectory == <<"home", "state">>
Mount(at, type) == [at |-> at, type |-> type]
Mountable == {Mount(SubSeq(MCDirectory, 1, n), t) : n \in 0..2, t \in {"ext4", "tmpfs"}}
Root == Mount(<<>>, "ext4")
MCTables == {<<Root>>} \cup {<<Root, m>> : m \in Mountable}
                       \cup {<<Root, m, n>> : m \in Mountable, n \in Mountable}

MCByteCount == [window_f64 |-> 2, window_i64 |-> 2, longer_f64 |-> 3, objects |-> 2]
MCSpecs == DOMAIN MCByteCount
=============================================================================
