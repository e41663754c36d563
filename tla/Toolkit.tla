------------------------------- MODULE Toolkit -------------------------------
(***************************************************************************)
(* The services and the codec of contract/spec.ts, one of which is used.   *)
(***************************************************************************)
EXTENDS Services, SpecCodec

ToolkitInit ==
  /\ ServicesInit
  /\ type \in (IF part = "codec" THEN Types ELSE AnyOf(Types))
  /\ value \in (IF part = "codec" THEN Values ELSE AnyOf(Values))
  /\ CodecInit

Serving == ServicesNext /\ UNCHANGED codecVars

Coding == part = "codec" /\ CodecNext /\ UNCHANGED <<part, services>>

ToolkitNext == Serving \/ Coding

ToolkitSpec == /\ ToolkitInit /\ [][ToolkitNext]_<<part, services, codecVars>>
               /\ MonitorFairness /\ EndpointsFairness

=============================================================================
