---------------------------- MODULE MCIpcServer ----------------------------
(* Small instances of IpcServer for TLC.                                    *)
EXTENDS IpcServer, TLC
=============================================================================
