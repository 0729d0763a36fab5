\* two units, two saves under way together, a region taken two units out of the picture
SPECIFICATION Spec
CONSTANTS
    Units = 2
    MinSize = 1
    SaveIds = {s1, s2}
    MaxDrift = 2
SYMMETRY Symmetry
INVARIANTS
    EditsStayInPicture
    PageShowsSaved
