---------------------------- MODULE MCProvenance ----------------------------
(***************************************************************************)
(* Two nodes, an edge between any of them, an attribute of one node, the   *)
(* ends and a member of the edge, a root attribute and a layout member.    *)
(***************************************************************************)
EXTENDS Provenance

MCNodes == {"n1", "n2"}
MCEdges == {"e"}
MCEnds == [e \in MCEdges |-> <<"n1", "n2">>]

Backup == <<"nodes", "n1", "attrs", "backup">>
Auth == <<"edges", "e", "auth">>
Icon == <<"nodes", "n2", "icon">>
Region == <<"attrs", "region">>

\* Between the two nodes, and the second one to itself.
MCEndChoices == {<<"n1", "n2">>, <<"n2", "n2">>}

From == <<"edges", "e", "from">>
To == <<"edges", "e", "to">>

MCMembers == {Backup, Auth, From, To, Icon, Region}
\* Nothing, one member, or all there are.
MCRewrites == {{}, {Backup}, {Auth}, {From}, {Backup, Auth, From, To}}

MCLayout == {Icon}
MCKeyOrder ==
  <<Backup, Auth, From, To, <<"attrs", "region">>, <<"edges", "e">>, <<"nodes", "n1">>, <<"nodes", "n2">> >>

MCExternalRef == [n \in MCNodes |-> IF n = "n1" THEN "" ELSE "terraform"]

\* Two states of one file, and a registry that has seen the second node at work.
MCSnapshots ==
  {[id |-> "terraform", hash |-> 1, kind |-> "imported",
    carries |-> {<<"nodes", "n1">>, <<"nodes", "n2">>, <<"edges", "e">>}],
   [id |-> "terraform", hash |-> 2, kind |-> "imported", carries |-> {<<"nodes", "n1">>}],
   [id |-> "registry", hash |-> 3, kind |-> "observed", carries |-> {<<"nodes", "n2">>}]}
=============================================================================
