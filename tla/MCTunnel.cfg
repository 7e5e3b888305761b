\* Both handlers, with and without an idle timeout.
SPECIFICATION FairSpec
CONSTANTS
  MaxChunks = 2
  Timeouts = {TRUE, FALSE}
CHECK_DEADLOCK FALSE
INVARIANTS TypeOK AnswerComplete RequestCutOnlyByServer ReturnsAsProxyExpects
PROPERTIES ServerEndsTunnel TimeoutEndsTunnel
