\* two speakers, one camera: two object announcements and a welcome
SPECIFICATION Spec
CONSTANTS
    None = None
    Pill = Pill
    s1 = s1
    s2 = s2
    c1 = c1
    Speakers <- MCSpeakers
    Cameras <- MCCameras
    Announcements <- MCAnnouncements
    ObjectAnnouncements <- MCObjects
    CameraOf <- MCCameraOf
    SpeakerOf <- MCSpeakerOf
    QueueSize = 1
    MaxChanges = 3
INVARIANTS
    KeysMatchPending
    OneOutcome
    GatesEmptyQueues
PROPERTIES
    LateAnswerKeepsGate
    NewestIsSpoken
