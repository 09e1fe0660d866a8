------------------------------- MODULE MCCron -------------------------------
(***************************************************************************)
(* Overlapping starts and drains of one lazy cron proxy.                   *)
(***************************************************************************)
EXTENDS CronLifecycle
=============================================================================
