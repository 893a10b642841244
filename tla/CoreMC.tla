------------------------------- MODULE CoreMC -------------------------------
(***************************************************************************)
(* Core for TLC.  CoreExtrinsics: processes of one thread, extrinsics,     *)
(* answers and cancellations, and the handlers that loop.  CoreThreads:    *)
(* threads that are started and finish, within the bound Threading.        *)
(***************************************************************************)
EXTENDS Core, TLC

AllActions == [do : {"Resume", "ProgramCrash"}] \cup [do : {"EmitMessage"}, iface : Interface, ans : BOOLEAN]
NoActions == {}
Symmetry == Permutations(Pid)
-----------------------------------------------------------------------------
OneSize ==
    /\ \A p \in Pid : \A k \in DOMAIN notifications_queue[p] : notifications_queue[p][k].size = 1
    /\ \A i \in Interface : interfaces[i].st = "Requested" =>
          \A k \in DOMAIN interfaces[i].other : interfaces[i].other[k].size = 1
    /\ \A p \in Pid, n \in ThreadIndex : thread[p][n].st = "NotificationWait" => thread[p][n].size = 1
NoOther == \A p \in Pid, n \in ThreadIndex :
    thread[p][n].st \notin {"OtherExtrinsicApplyAction", "OtherExtrinsicWait", "OtherExtrinsicEmit"}
OneThread(p) == \A n \in ThreadIndex \ {1} : thread[p][n] = NoThread

\* The bound of CoreThreads.  Either processes of one thread, which call other extrinsics
\* and have notifications and buffers of two sizes, so that some are too small; or
\* processes of up to two threads, no other extrinsics and one size.
Threading ==
    \/ \A p \in Pid : OneThread(p)
    \/ OneSize /\ NoOther
=============================================================================
