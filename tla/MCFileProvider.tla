---------------------------- MODULE MCFileProvider ----------------------------
EXTENDS FileProvider

CONSTANTS zones, hosts

MCFileName == {zones, hosts}

File(f) == [name |-> f, octal |-> TRUE]
BadMode(f) == [name |-> f, octal |-> FALSE]

(* Two files; two entries of one name around another file; a second entry  *)
(* that cannot be written or has no name; hosts_file with and without one. *)
FileLists ==
    {<<>>,
     <<File(zones), File(hosts)>>,
     <<File(zones), File(hosts), File(zones)>>,
     <<File(zones), BadMode(hosts)>>,
     <<File(zones), File(NoName)>>}

MCSetups ==
    [kind : {"file"}, remote : BOOLEAN, files : FileLists]
    \cup [kind : {"hosts_file"}, remote : BOOLEAN,
          files : {<<File(hosts)>>, <<BadMode(hosts)>>, <<File(NoName)>>}]
===============================================================================
