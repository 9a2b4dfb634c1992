---------------------------- MODULE MCDataAgents ----------------------------
(***************************************************************************)
(* Instances of DataAgents for TLC: a run of the graph over a file and an   *)
(* SFTP source, and one of the sub-graph over another SFTP source whose     *)
(* file has the same name.                                                  *)
(***************************************************************************)
EXTENDS DataAgents, TLC

CONSTANTS r1, r2, csv, sftp, other, i1, i2, file

TwoRuns   == (r1 :> <<csv, sftp>>) @@ (r2 :> <<other>>)
OneFile   == (sftp :> file) @@ (other :> file)
SomeTries == (csv :> 2) @@ (sftp :> 1) @@ (other :> 0)

A(form) == [id |-> i1, form |-> form]
B(form) == [id |-> i2, form |-> form]

Shipment(x, y, z) == (csv :> x) @@ (sftp :> y) @@ (other :> z)

\* Rows of every form, an id that two sources share, and no rows at all.
SomeShipments ==
    {Shipment(<<B("bad"), A("unsure")>>, <<A("hostile")>>, <<A("unsure")>>),
     Shipment(<<A("plain")>>, <<B("hostile"), B("plain")>>, <<>>),
     Shipment(<<A("unsure")>>, <<B("flawed")>>, <<A("plain"), B("broken")>>)}
=============================================================================
