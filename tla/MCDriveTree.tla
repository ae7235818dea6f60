---------------------------- MODULE MCDriveTree ----------------------------
(* Instances of DriveTree for TLC. *)
EXTENDS DriveTree, TLC

CONSTANTS nameA, nameB, nameC, nameD

Start(m, t, own, remote, failures) ==
  [mode |-> m, drive |-> t, own |-> own, remote |-> remote, failures |-> failures]

(* A device with a folder in it, which may have a folder in it. *)
Shallow == 2 :> [parent |-> Root, name |-> nameA] @@ 3 :> [parent |-> 2, name |-> nameB]

Deep == Shallow @@ 4 :> [parent |-> 3, name |-> nameA]

MCStarts == { Start("lazy", Shallow, 1, 0, 0), Start("lazy", Shallow, 0, 1, 0),
              Start("eager", Shallow, 0, 1, 1), Start("eager", Deep, 1, 0, 0) }

(* Folders of different names, one in the other. *)
Named3 == 2 :> [parent |-> Root, name |-> nameD] @@ 3 :> [parent |-> 2, name |-> nameA]
          @@ 4 :> [parent |-> 3, name |-> nameB]

MCNamed == { Start("eager", Named3, 4, 0, 0) }
=============================================================================
