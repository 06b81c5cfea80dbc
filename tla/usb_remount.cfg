SPECIFICATION UsbSpec
CONSTANTS
    Files <- SomeFiles
    Names <- SomeNames
    Offsets = {1}
PROPERTIES
    DownloadBegins
