---------------------------- MODULE PhotoBackup ----------------------------
(***************************************************************************)
(* What the camera-roll backup promises, without queue, cursor, runners or *)
(* failures: a photo leaves the device only after a copy has reached the   *)
(* server.  What becomes of the copy there is up to the user.              *)
(***************************************************************************)
CONSTANT Photos
VARIABLES device,    \* photos on the device
          server,    \* photos with a copy on the server
          discarded  \* photos whose copy the user has deleted there

BackupInit == device = {} /\ server = {} /\ discarded = {}

Take(p) == /\ p \notin device \cup server \cup discarded
           /\ device' = device \cup {p} /\ UNCHANGED <<server, discarded>>

Store(p) == /\ p \in device
            /\ server' = server \cup {p} /\ UNCHANGED <<device, discarded>>

Discard(p) == /\ p \in server
              /\ server' = server \ {p} /\ discarded' = discarded \cup {p}
              /\ UNCHANGED device

Free(gone) == /\ gone \subseteq server \cup discarded
              /\ device' = device \ gone /\ UNCHANGED <<server, discarded>>

BackupNext == \/ \E p \in Photos : Take(p) \/ Store(p) \/ Discard(p)
              \/ \E gone \in SUBSET Photos : Free(gone)

BackupSpec == BackupInit /\ [][BackupNext]_<<device, server, discarded>>
============================================================================
