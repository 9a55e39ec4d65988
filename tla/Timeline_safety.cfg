CONSTANTS
  Mail = {1, 2}
  Thread <- MCThread
  Identities = {acme}
  acme = acme
  t = t
  Nobody = Nobody
  Batches <- MCBatches
  EventEdits <- MCEdits
  EditStatuses = {"withdrawn"}
  GhostAfter = 2
  StaleAfter = 1
  Clock = {2, 5}
  MaxCorrections = 2
  Skills <- MCSkills
  Outbound = {}
  FollowUpAfter = 1
  Filters <- MCFilters
SPECIFICATION Spec
INVARIANTS TypeOK AutomaticFollowsTimeline OneEventPerMail GhostsJustified SegmentsAddUp ViewsAgree
PROPERTIES UserDecides EvidenceAccounted
