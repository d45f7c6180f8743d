\* Up to three frames of a client, cut into reads in every way.
CONSTANTS
  ClientFrame <- MCFrame
  MaxFrames = 3
  Reads = {1, 3, 200}
  Answers <- MCAnswers
  payload_size_basic = 5
  payload_size_extended = 7
  max_message_size = 9
SPECIFICATION FramesSpec
INVARIANTS FramesTypeOK  PreparedReads CloseAnswered
