SPECIFICATION Spec
CONSTANTS
  Frames = {f1, f2}
  nullptr = nullptr
  Workers = {w1, w2}
  NoThread = NoThread
  MaxPictures = 3
INVARIANTS FramesHaveOnePlace PicturesInOrder PeekedIsNext OneWorker NoSleepBesideData
PROPERTY StopReturns
CHECK_DEADLOCK FALSE
