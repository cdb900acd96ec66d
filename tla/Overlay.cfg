SPECIFICATION OverlaySpec
CONSTANTS
  Formats = {"1080i_5000", "1080p_2398", "720p_5000", "4Kp_5000", "8kp_5000", "SD_625_5000"}
  PixFormats = {"10BIT_YCBCR", "24BIT_RGB", "48BIT_RGB"}
  Percents = {0, 45, 90}
  Heights <- MCHeights
  Scales = {100, 150}
  Garbage <- MCGarbage
INVARIANTS OverlayOK PicturesToldApart DigitsInPicture ColumnSurvives OSDReadsAsDrawn OverrunNeeds2160
\* A write outside the bitmaps ends the program.
CHECK_DEADLOCK FALSE
