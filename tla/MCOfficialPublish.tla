------------------------- MODULE MCOfficialPublish -------------------------
(***************************************************************************)
(* Instances of OfficialPublish for TLC.  Three attempts are the default   *)
(* of the configuration; two versions below and at the candidate and one   *)
(* above it order a waiting review in every way; one status stands for     *)
(* each class retryablePublishError tells apart.                           *)
(***************************************************************************)
EXTENDS OfficialPublish

CONSTANTS RetryCap      \* Retry.MaxUploadTimeout, in units of 15 s

MCRequests(sdk, hasInfo) ==
  { r \in [ maxAttempts : {3}, retry : BOOLEAN, maxUpload : {RetryCap},
            create : BOOLEAN, hasInfo : hasInfo, sdk : sdk,
            guard : BOOLEAN, continue : BOOLEAN ] :
      /\ r.hasInfo => r.create       \* config.validate
      /\ r.continue => r.guard }     \* read by the guard only

LegacyAndPAT == MCRequests(BOOLEAN, BOOLEAN)
PATWithInformation == MCRequests({TRUE}, {TRUE})

MCVersion == 1..3
MCStatus == {302, 400, 401, 429, 503, 600}
=============================================================================
