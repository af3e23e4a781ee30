---------------------------- MODULE MCBandwidth ----------------------------
(* Bandwidth with three requests, and TransferLinks with two files: what a  *)
(* download may take and under which URLs it is served are looked at one at *)
(* a time (part); the other stays where it begins.                          *)
EXTENDS Bandwidth, Links, TLC

VARIABLE part

linkVars == <<now, files, public, sharing, issued, config, former, setup, links, cdn, ask,
              deletion, cleared, saw>>

\* A TTL far above the largest, and none at all.
Config(mode, ttl) == [mode |-> mode, publicMode |-> "inherit", ttl |-> ttl, window |-> 2]
MCConfigs == {Config("full", 9), Config("revalidate", 0)}

MCSizes == <<1, 1>>

\* A share that is given and taken away, and one with two requests; a public path whose
\* settings change, and one where a new version comes; a link and the owner's route, which
\* has no credential.
MCSetups ==
  {[kinds |-> {"share"}, files |-> {1}, tokens |-> 2, given |-> 0, edits |-> 0, reqs |-> {1}],
   [kinds |-> {"share"}, files |-> {1}, tokens |-> 1, given |-> 0, edits |-> 1, reqs |-> {1, 2}],
   [kinds |-> {"public"}, files |-> {1}, tokens |-> 1, given |-> 1, edits |-> 1, reqs |-> {1}],
   [kinds |-> {"public"}, files |-> {1, 2}, tokens |-> 1, given |-> 1, edits |-> 0, reqs |-> {1}],
   [kinds |-> {"link", "own"}, files |-> {1}, tokens |-> 0, given |-> 0, edits |-> 1, reqs |-> {1}]}

ASSUME LinksAssumption == Links!LinksFit

MCInit == /\ part \in {"quota", "links"}
          /\ Init /\ Links!Init
          /\ part = "quota" => setup = (CHOOSE s \in MCSetups : TRUE) /\ config = Config("full", 9)
          /\ part = "links" => subject = "user" /\ owner = "go"

MCNext == \/ part = "quota" /\ Next /\ UNCHANGED <<part, linkVars>>
          \/ part = "links" /\ Links!Next /\ UNCHANGED <<part, vars>>

MCSpec == MCInit /\ [][MCNext]_<<part, vars, linkVars>>

Alike == Permutations(Request)
=============================================================================
