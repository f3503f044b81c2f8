SPECIFICATION FairSpec
CONSTANTS
  text = text
  first = first
  second = second
  chat = chat
  batch = batch
  Jobs = {text, first, second}
  Uploads = {first, second}
  Attachment <- MCAttachment
  Requests = {chat, batch}
  JobsOf <- MCJobsOf
  Batches = {batch}
  MaxDrops = 1
  NoJob = noJob
  NoRequest = noRequest
INVARIANTS QueueSound
PROPERTIES ImplementsOutbox EverythingSettles
CHECK_DEADLOCK FALSE
