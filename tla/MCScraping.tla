----------------------------- MODULE MCScraping -----------------------------
(* Jobs that pile up, or a request and a failure of the scraper.           *)
EXTENDS Scraping

OneMatter == piled => made = 0 /\ faults = 0

MCNext == Next /\ OneMatter'

MCSpec ==
  /\ Init /\ [][MCNext]_vars
  /\ WF_vars(Scheduler /\ Excuse /\ OneMatter')
  /\ \A j \in Jobs : WF_vars(Progress(j) /\ Excuse)
  /\ WF_vars(Time /\ Excuse)
=============================================================================
