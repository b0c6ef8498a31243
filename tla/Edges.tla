------------------------------- MODULE Edges --------------------------------
(***************************************************************************)
(* What faces other systems: the connector that posts events, the streams  *)
(* of the gateway, and the servers.  One instance of each, as in           *)
(* Components.                                                             *)
(***************************************************************************)
EXTENDS Callers, Integers, Sequences, FiniteSets

CONSTANTS
    BatchSize, MaxPosted, MaxEvents,                \* Delivery
    ReplyLines, Permits, GlobalRpm, MaxStreams,          \* Streaming
    Requests, MaxSize, Ttl, MaxWall, MaxRequests    \* Serving

VARIABLES
    buffer, sent, errors, sender, received, events, late, refused, flushes,
    permits, counted, costed, failures, stream, frames, opened,
    component, wall, cache, waiting, audit, measured, replies

-----------------------------------------------------------------------------
Siem   == INSTANCE Delivery WITH Senders <- Threads, MaxRetries <- MaxPosted
Chunks == INSTANCE Streaming WITH Streams <- Threads, Lines <- ReplyLines
Serve  == INSTANCE Serving WITH Clients <- Threads, MaxClock <- MaxWall, clock <- wall

ASSUME EdgeAssumptions ==
    Siem!DeliveryAssumption /\ Chunks!StreamingAssumption /\ Serve!ServingAssumption

siemVars  == <<buffer, sent, errors, sender, received, events, late, refused, flushes>>
chunkVars == <<permits, counted, costed, failures, stream, frames, opened>>
serveVars == <<component, wall, cache, waiting, audit, measured, replies>>
=============================================================================
