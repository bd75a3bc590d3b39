SPECIFICATION Spec
CONSTANTS
  Messages = {m1, m2}
  Workers = {w1}
  Flags = {"Seen"}
  Nobody = Nobody
SYMMETRY MCActionSymmetry
INVARIANTS TypeOK TouchesOnlyItsMessage RecordIsTrue
