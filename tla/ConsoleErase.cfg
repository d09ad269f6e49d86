SPECIFICATION Spec
CONSTANTS
  Letters <- MCLetters
  Controls = {"CR", "BS", "DEL", "ESC"}
  Columns = 4
  Rows = 2
  Wrap = 4
PROPERTY ExecutesWhatIsShown
