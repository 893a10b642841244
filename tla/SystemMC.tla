------------------------------ MODULE SystemMC -------------------------------
(***************************************************************************)
(* Small instances of System: a loader, a client that also handles an      *)
(* interface of its own and may compete for `loader`, main programs, and   *)
(* native programs one of which sends a message to the client.             *)
(***************************************************************************)
EXTENDS System

CONSTANTS ld, cl, h1, h2, net, time

OneMain == <<h1>>
TwoMain == <<h1, h2>>
OneNative == <<net>>
TwoNatives == <<time, net>>

ProvidesDef == [n \in NativeSet |-> IF n = net THEN "tcp" ELSE "time"]
EmitsDef == [n \in NativeSet |-> IF n = net THEN "log" ELSE None]
MayRegisterDef == [p \in Process |-> IF p = ld THEN {"loader"}
                                     ELSE IF p = cl THEN {"loader", "log", "tcp"} ELSE {}]
MayUseDef == [p \in Process |-> IF p = cl THEN {"tcp"} ELSE {"log", "interface"}]
=============================================================================
