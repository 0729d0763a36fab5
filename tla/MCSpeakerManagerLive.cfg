\* one speaker, queue of two: two object announcements and a welcome
SPECIFICATION Spec
CONSTANTS
    None = None
    Pill = Pill
    s1 = s1
    s2 = s2
    c1 = c1
    Speakers <- MCOneSpeaker
    Cameras <- MCCameras
    Announcements <- MCAnnouncements
    ObjectAnnouncements <- MCObjects
    CameraOf <- MCCameraOf
    SpeakerOf <- MCAllToOne
    QueueSize = 2
    MaxChanges = 3
PROPERTIES
    KeepsLedger
    EveryAnnouncementIsSettled
    CallsEndUnlessStranded
