------------------------------- MODULE Links -------------------------------
(* TransferLinks under names of its own, so that it can stand in one module *)
(* with another component: MCBandwidth runs it, BandwidthProofs proves it.  *)

CONSTANTS File, Sizes, Routes, Configs, Setups, LinkTtl, DefaultTtl, MinTtl, MaxTtl, Lag, Flight,
          UrlsPerBatch, Reqs, MaxTime, MaxLinks

VARIABLES now, files, public, sharing, issued, config, former, setup, links, cdn, ask, deletion,
          cleared, saw

Links == INSTANCE TransferLinks WITH Size <- Sizes, Req <- Reqs

\* An answer, a copy of the CDN and a signed link are of a file that the URL names
\* (applyTransferCacheHeaders, getSignedTokenExpiry).
UrlsHold == Links!UrlsHold

\* What a purge has evicted does not come back (purgeDeletedFiles).
PurgedStaysGone == Links!PurgedStaysGone
=============================================================================
